---- MODULE Spec2Model ----
(***************************************************************************)
(* Verification model of the Space-Debris-Risk-Assessment core:            *)
(*   - the TLE codec of src/app/models/tle_parser.py (OptimizedTLEParser), *)
(*   - the decay ensemble of src/app/models/__init__.py                    *)
(*     (HybridOrbitDecayPredictor), sequentially and under the worker      *)
(*     threads of SpaceDebrisService.process_multiple_satellites.          *)
(*                                                                         *)
(* Text is a sequence of one-character strings.  Decimal numbers are       *)
(* exact: a pair <<m, e>> stands for m * 10^e, kept normalised (m carries  *)
(* no trailing zero, zero is <<0, 0>>).  Altitudes are integers in         *)
(* hundredths of a kilometre once rounded, and in 1e-5 km before.          *)
(***************************************************************************)
EXTENDS Integers, Sequences, FiniteSets, TLC

VARIABLES
    \* ---- TLE codec (one parse_tle_lines call) ----
    line1,          \* first TLE line handed to the parser
    line2,          \* second TLE line handed to the parser
    parsed,         \* outcome of parse_tle_lines: pending / record / None / raised
    \* ---- checksum harness (one _verify_checksum call per text) ----
    cline,          \* the line handed to _verify_checksum
    verified,       \* "pending", "true", "false" or "ValueError"
    replaced,       \* TRUE once one digit of cline was replaced after a verifying call
    \* ---- HybridOrbitDecayPredictor (one instance, shared by the callers) ----
    is_trained,     \* self.is_trained
    scaler,         \* self.scaler: the sample count it was fitted on, 0 while unfitted
    fitted,         \* rf_model / gb_model / nn_model: sample count fitted on, 0 unfitted
    model_metrics,  \* self.model_metrics: per model, sample count of its metrics, 0 absent
    fitting,        \* <<thread, component>> pairs whose fit() call is in progress
    \* ---- the callers (threads) of the predictor ----
    pc,             \* per thread: the statement it is at
    op,             \* per thread: the public call it is in ("train" / "predict")
    arg,            \* per thread: n_samples as passed to train (0 is None)
    n_samples,      \* per thread: train's local n_samples after its default
    step,           \* per thread: component being fitted (0 scaler, 1..3 the models)
    decay_rate,     \* per thread: predict_decay_rate's local decay_rate (the blend)
    \* ---- observation ----
    calls,          \* public calls started so far
    train_runs,     \* training runs started (calls of train that passed its guard)
    log,            \* the completed public calls with what they returned, in order
    observed_trained, \* some call has read is_trained as True
    read_during_fit, \* some prediction read the models while a fit was in progress
    \* ---- ReentryAnalyzer (one predict_reentry_window call) ----
    orbit,          \* the elements the propagator extracted: altitude, inclination, eccentricity
    reentry,        \* outcome of predict_reentry_window: pending or the result dictionary
    \* ---- SpaceDebrisService (one process_multiple_satellites call) ----
    identifiers,    \* satellite_identifiers
    assessment,     \* what the analysis gives each well-formed TLE text (propagator and ensemble)
    futures,        \* per identifier: pending, or what its future completed with
    out_of_order,   \* some worker finished while one submitted before it was still running
    collected,      \* futures the enumerate loop has gone through
    results,        \* the list `results`
    errors,         \* the list `errors`
    timed_out,      \* indices whose future.result(timeout=120) raised
    group_metadata, \* self._group_metadata: the indices it holds
    tle_cache,      \* self.tle_parser._tle_cache
    response,       \* pending, or the dictionary the call returned
    \* ---- one _process_entire_debris_group call ----
    members,        \* tle_data_list
    group_result,   \* pending, or the dictionary the call returned
    \* ---- _generate_training_data (one sample) ----
    sample,         \* pending, or a feature vector with its physics decay rate and target
    \* ---- _calculate_reentry_risk (one call) ----
    scored,         \* pending, or the arguments of the call with the risk returned
    \* ---- SpaceDebrisService over its lifetime ----
    service,        \* the instance: constructed or not, is_trained and training runs of
                    \* self.predictor and of self.analyzer.predictor
    analyses,       \* the process_single_satellite calls made, with what they returned
    \* ---- _categorize_risk and _aggregate_results ----
    risk_thresholds, \* self.risk_threshold_medium and self.risk_threshold_high
    analysed,       \* the list `results` handed to _aggregate_results
    aggregated,     \* pending, or the summary _aggregate_results returned
    \* ---- two or more process_multiple_satellites calls on one service ----
    group_attr,     \* the attribute self._group_metadata: absent, or the dictionary
    batch_call,     \* per calling thread: its request, the statement it is at, its response
    \* ---- one fetch_tle_data call on a response text ----
    response_text,  \* the entries of the text the source answered with
    fetch_result    \* pending, or the list fetch_tle_data returned

codecVars == <<line1, line2, parsed>>
checksumVars == <<cline, verified, replaced>>
modelVars == <<is_trained, scaler, fitted, model_metrics, fitting>>
threadVars == <<pc, op, arg, n_samples, step, decay_rate>>
observeVars == <<calls, train_runs, log, observed_trained, read_during_fit>>
predictorVars == <<modelVars, threadVars, observeVars>>
analyzerVars == <<orbit, reentry>>
batchVars == <<identifiers, assessment, futures, out_of_order, collected, results, errors,
               timed_out, group_metadata, tle_cache, response, members, group_result>>
generatorVars == <<sample>>
scoringVars == <<scored>>
lifetimeVars == <<service, analyses>>
aggregateVars == <<risk_thresholds, analysed, aggregated>>
callVars == <<group_attr, batch_call>>
fetchVars == <<response_text, fetch_result>>
appVars == <<generatorVars, scoringVars, lifetimeVars, aggregateVars, callVars, fetchVars>>
serviceVars == <<analyzerVars, batchVars, appVars>>

(***************************************************************************)
(* Characters                                                              *)
(***************************************************************************)
DigitChars == <<"0", "1", "2", "3", "4", "5", "6", "7", "8", "9">>

Digits == {DigitChars[i] : i \in 1..10}

\* str.isdigit() / int(char) on the characters of the alphabet below
isdigit(c) == c \in Digits

DigitVal(c) == (CHOOSE i \in 1..10 : DigitChars[i] = c) - 1

UpperCase == {"U", "A", "X"}

\* every character the enumerated inputs are built from
Alphabet == Digits \cup UpperCase \cup {" ", ".", "-", "+", "u"}

(***************************************************************************)
(* Python string helpers                                                   *)
(***************************************************************************)
\* s[a:b] with 1-based inclusive bounds
Slice(s, a, b) == IF a > b THEN <<>> ELSE SubSeq(s, a, b)

RECURSIVE lstrip(_)
lstrip(s) == IF s # <<>> /\ Head(s) = " " THEN lstrip(Tail(s)) ELSE s

RECURSIVE rstrip(_)
rstrip(s) ==
    IF s # <<>> /\ s[Len(s)] = " " THEN rstrip(SubSeq(s, 1, Len(s) - 1)) ELSE s

\* str.strip()
strip(s) == rstrip(lstrip(s))

AllDigits(s) == \A i \in 1..Len(s) : isdigit(s[i])

\* the unsigned body of a float literal: digits with at most one '.', one digit at least
FloatBody(s) ==
    /\ \A i \in 1..Len(s) : isdigit(s[i]) \/ s[i] = "."
    /\ Cardinality({i \in 1..Len(s) : s[i] = "."}) <= 1
    /\ \E i \in 1..Len(s) : isdigit(s[i])

Unsigned(s) == IF s # <<>> /\ s[1] \in {"+", "-"} THEN Tail(s) ELSE s

\* float(s) does not raise ValueError (no exponent letter, inf or nan in the alphabet)
IsFloat(s) == FloatBody(Unsigned(strip(s)))

\* int(s) does not raise ValueError
IsInt(s) == LET u == Unsigned(strip(s)) IN u # <<>> /\ AllDigits(u)

RECURSIVE DigitsValue(_)
\* the number a string of digits denotes (at most 9 digits)
DigitsValue(s) ==
    IF s = <<>> THEN 0 ELSE 10 * DigitsValue(SubSeq(s, 1, Len(s) - 1)) + DigitVal(s[Len(s)])

OnlyDigits(s) == SelectSeq(s, isdigit)

RECURSIVE DropLeadingZeros(_)
DropLeadingZeros(s) ==
    IF s # <<>> /\ Head(s) = "0" THEN DropLeadingZeros(Tail(s)) ELSE s

(***************************************************************************)
(* Exact decimals                                                          *)
(***************************************************************************)
RECURSIVE Dec(_, _)
Dec(m, e) ==
    IF m = 0 THEN <<0, 0>>
    ELSE IF m % 10 = 0 THEN Dec(m \div 10, e + 1)
    ELSE <<m, e>>

(***************************************************************************)
(* _calculate_checksum / _verify_checksum                                  *)
(***************************************************************************)
RECURSIVE ChecksumLoopDigitsOnly(_, _)
\* _calculate_checksum without its `elif char == '-'` branch
ChecksumLoopDigitsOnly(line, i) ==
    IF i >= Len(line) THEN 0
    ELSE (IF isdigit(line[i]) THEN DigitVal(line[i]) ELSE 0)
         + ChecksumLoopDigitsOnly(line, i + 1)

RECURSIVE ChecksumLoop(_, _)
\* the loop of _calculate_checksum over line[:-1], from index i on
ChecksumLoop(line, i) ==
    IF i >= Len(line) THEN 0
    ELSE (IF isdigit(line[i]) THEN DigitVal(line[i])
          ELSE IF line[i] = "-" THEN 1
          ELSE 0) + ChecksumLoop(line, i + 1)

calculate_checksum(line) == ChecksumLoop(line, 1) % 10

\* int(line[-1]) raises (ValueError, or IndexError on an empty line)
verify_checksum_raises(line) == line = <<>> \/ ~isdigit(line[Len(line)])

\* the value _verify_checksum returns when it returns
verify_checksum(line) == calculate_checksum(line) = DigitVal(line[Len(line)])

\* the outcome of one call: "true", "false" or "ValueError"
verify_checksum_call(line) ==
    IF verify_checksum_raises(line) THEN "ValueError"
    ELSE IF verify_checksum(line) THEN "true" ELSE "false"

(***************************************************************************)
(* Numeric values of text                                                  *)
(***************************************************************************)
\* position of the first '.' of s, Len(s) + 1 when there is none
DotPos(s) ==
    IF \E i \in 1..Len(s) : s[i] = "."
    THEN CHOOSE i \in 1..Len(s) : s[i] = "." /\ \A j \in 1..(i - 1) : s[j] # "."
    ELSE Len(s) + 1

Sign(s) == IF s # <<>> /\ s[1] = "-" THEN -1 ELSE 1

\* float(s) as an exact decimal, for a text float() accepts (at most 9 digits)
FloatValue(s) ==
    LET u == Unsigned(strip(s))
        fracLen == Len(OnlyDigits(Slice(u, DotPos(u) + 1, Len(u))))
    IN  Dec(Sign(strip(s)) * DigitsValue(OnlyDigits(u)), 0 - fracLen)

\* int(s), for a text int() accepts (at most 9 digits)
IntValue(s) == Sign(strip(s)) * DigitsValue(Unsigned(strip(s)))

\* float(s) == 0.0
IsZeroFloat(s) == \A i \in 1..Len(s) : isdigit(s[i]) => s[i] = "0"

\* |float(s)| in hundredths, the digits after the second decimal dropped (the fields
\* the inputs below carry hold zeros there)
CentiValue(s) ==
    LET u == Unsigned(strip(s))
        d == DotPos(u)
        frac == OnlyDigits(Slice(u, d + 1, Len(u))) \o <<"0", "0">>
    IN  100 * DigitsValue(Slice(u, 1, d - 1)) + DigitsValue(SubSeq(frac, 1, 2))

(***************************************************************************)
(* _parse_scientific_notation                                              *)
(***************************************************************************)
Raised(err) == [ok |-> FALSE, value |-> <<0, 0>>, error |-> err]

Returned(v) == [ok |-> TRUE, value |-> v, error |-> "none"]

\* index of the first '+' or '-' of s, 0 when there is none (exp_pos = -1)
ExpPos(s) ==
    IF \E i \in 1..Len(s) : s[i] \in {"+", "-"}
    THEN CHOOSE i \in 1..Len(s) :
            s[i] \in {"+", "-"} /\ \A j \in 1..(i - 1) : s[j] \notin {"+", "-"}
    ELSE 0

\* mantissa_str[0] + '.' + mantissa_str[1:] when longer than one character
MantissaText(mantissa_str) ==
    IF Len(mantissa_str) > 1
    THEN <<mantissa_str[1], ".">> \o Tail(mantissa_str)
    ELSE mantissa_str

\* sign * mantissa * (10 ** exponent)
SciProduct(sign, mantissa, exponent) ==
    Dec(sign * mantissa[1], mantissa[2] + exponent)

\* first exponent 10 ** e no longer converts to a float for
MaxFloatExp10 == 309

parse_scientific_notation(sci_str) ==
    LET s == strip(sci_str)
        sign == IF s # <<>> /\ s[1] = "-" THEN -1 ELSE 1
        rest == IF s # <<>> /\ s[1] \in {"-", "+"} THEN Tail(s) ELSE s
        exp_pos == ExpPos(rest)
        mantissa_str == Slice(rest, 1, exp_pos - 1)
        exp_sign == rest[exp_pos]
        exp_value == Slice(rest, exp_pos + 1, Len(rest))
        mtext == MantissaText(mantissa_str)
        exponent == IF exp_sign = "-" THEN 0 - IntValue(exp_value) ELSE IntValue(exp_value)
    IN  IF s = <<>> \/ s = <<"0", "0", "0", "0", "0", "+", "0">>
             \/ s = <<"0", "0", "0", "0", "0", "-", "0">>
        THEN Returned(<<0, 0>>)
        ELSE IF exp_pos = 0
        THEN IF IsFloat(rest) THEN Returned(Dec(sign * FloatValue(rest)[1], FloatValue(rest)[2]))
             ELSE Raised("ValueError")
        ELSE IF ~IsFloat(mtext) \/ ~IsInt(exp_value) THEN Raised("ValueError")
        ELSE IF exponent >= MaxFloatExp10 THEN Raised("OverflowError")
        ELSE Returned(SciProduct(sign, FloatValue(mtext), exponent))

(***************************************************************************)
(* _calculate_orbital_parameters                                           *)
(***************************************************************************)
\* round(x / q) to the nearest integer, ties to even (Python's round)
RoundHalfEven(x, q) ==
    LET d == x \div q
        r == x % q
    IN  IF 2 * r > q \/ (2 * r = q /\ d % 2 = 1) THEN d + 1 ELSE d

\* earth_radius, in 1e-5 km
EarthRadiusE5 == 637100000

\* a = (mu / n^2)^(1/3) with n = mean_motion * 2 pi / 86400, in 1e-3 km, for a mean
\* motion in hundredths of a revolution per day: the source expression evaluated at
\* each mean motion the inputs carry (mu = 398600.4418)
SemiMajorAxis(mean_motion) ==
    CASE mean_motion = 1600 -> 6652556
      [] mean_motion = 1550 -> 6794863
      [] mean_motion = 1400 -> 7271932
      [] mean_motion = 1300 -> 7640227
      [] mean_motion = 1250 -> 7842632

\* apogee and perigee before rounding, in 1e-5 km (eccentricity in hundredths)
Apogee(a, eccentricity) == a * (100 + eccentricity) - EarthRadiusE5

Perigee(a, eccentricity) == a * (100 - eccentricity) - EarthRadiusE5

\* the average with its division by two left out
AverageAltitudeUnhalved(apogee, perigee) == RoundHalfEven(apogee + perigee, 1000)

\* round((apogee + perigee) / 2, 2), in 0.01 km
AverageAltitude(apogee, perigee) == RoundHalfEven(apogee + perigee, 2000)

\* the returned dictionary, every entry in 0.01 km
calculate_orbital_parameters(mean_motion, eccentricity) ==
    LET a == SemiMajorAxis(mean_motion)
        apogee == Apogee(a, eccentricity)
        perigee == Perigee(a, eccentricity)
    IN  [semi_major_axis_km |-> RoundHalfEven(a, 10),
         apogee_altitude_km |-> RoundHalfEven(apogee, 1000),
         perigee_altitude_km |-> RoundHalfEven(perigee, 1000),
         average_altitude_km |-> AverageAltitude(apogee, perigee)]

(***************************************************************************)
(* _validate_tle_format                                                    *)
(***************************************************************************)
\* the length both lines must have
LineLen == 69

\* _validate_tle_format without its checksum test
validate_tle_format_unchecked(l1, l2) ==
    IF Len(l1) # LineLen \/ Len(l2) # LineLen THEN "invalid"
    ELSE IF l1[1] # "1" \/ l2[1] # "2" THEN "invalid"
    ELSE "ok"

\* "ok" (True), "invalid" (False) or "ValueError" (int(line[-1]) raised); `or`
\* evaluates the second checksum only when the first verifies
validate_tle_format(l1, l2) ==
    IF Len(l1) # LineLen \/ Len(l2) # LineLen THEN "invalid"
    ELSE IF l1[1] # "1" \/ l2[1] # "2" THEN "invalid"
    ELSE IF verify_checksum_raises(l1) THEN "ValueError"
    ELSE IF ~verify_checksum(l1) THEN "invalid"
    ELSE IF verify_checksum_raises(l2) THEN "ValueError"
    ELSE IF ~verify_checksum(l2) THEN "invalid"
    ELSE "ok"

(***************************************************************************)
(* parse_tle_lines                                                         *)
(***************************************************************************)
IsSpaceAt(l, cols) == \A c \in cols : l[c + 1] = " "

\* columns a..b of a line, counted from 0 as the TLE format does
Cols(l, a, b) == SubSeq(l, a + 1, b + 1)

\* line1_pattern on a line of LineLen characters: the fixed parts of the pattern take
\* 63 characters and each of its six ' +' at least one, so every ' +' matches exactly
\* one space and every group sits at fixed columns
line1_match(l) ==
    /\ l[1] = "1"
    /\ IsSpaceAt(l, {1, 8, 17, 32, 43, 52, 61, 63})
    /\ AllDigits(Cols(l, 2, 6))
    /\ l[8] \in UpperCase
    /\ isdigit(l[63])
    /\ isdigit(l[69])

\* line2_pattern on a line of LineLen characters (63 fixed characters, six ' +')
line2_match(l) ==
    /\ l[1] = "2"
    /\ IsSpaceAt(l, {1, 7, 16, 25, 33, 42, 51})
    /\ AllDigits(Cols(l, 2, 6))
    /\ isdigit(l[69])

\* toordinal() of 1 January of a year
OrdinalOfYear(year) ==
    365 * (year - 1) + (year - 1) \div 4 - (year - 1) \div 100 + (year - 1) \div 400 + 1

\* datetime(epoch_year, 1, 1) + timedelta(days=epoch_day - 1) raises no OverflowError:
\* the date stays within 0001-01-01 .. 9999-12-31 (ordinals 1 .. 3652059)
EpochInRange(year2, dayText) ==
    LET year == IF IntValue(year2) < 57 THEN IntValue(year2) + 2000 ELSE IntValue(year2) + 1900
        u == Unsigned(strip(dayText))
        whole == DropLeadingZeros(OnlyDigits(Slice(u, 1, DotPos(u) - 1)))
        fracZero == IsZeroFloat(Slice(u, DotPos(u) + 1, Len(u)))
        days == DigitsValue(whole)
    IN  /\ Len(whole) <= 7
        /\ IF Sign(strip(dayText)) = 1
           THEN OrdinalOfYear(year) + days - 1 >= 1 /\ OrdinalOfYear(year) + days - 1 <= 3652059
           ELSE OrdinalOfYear(year) - days - 1 >= (IF fracZero THEN 1 ELSE 2)

\* the conversions of line 1's groups raise nothing
Line1FieldsOk(l) ==
    LET epoch_str == strip(Cols(l, 18, 31))
    IN  /\ IsInt(Slice(epoch_str, 1, 2))
        /\ IsFloat(Slice(epoch_str, 3, Len(epoch_str)))
        /\ EpochInRange(Slice(epoch_str, 1, 2), Slice(epoch_str, 3, Len(epoch_str)))
        /\ IsFloat(Cols(l, 33, 42))
        /\ parse_scientific_notation(Cols(l, 44, 51)).ok
        /\ parse_scientific_notation(Cols(l, 53, 60)).ok
        /\ IsInt(Cols(l, 64, 67))

\* float(f"0.{group(4).strip()}")
EccentricityText(l) == <<"0", ".">> \o strip(Cols(l, 26, 32))

\* the conversions of line 2's groups raise nothing
Line2FieldsOk(l) ==
    /\ IsFloat(Cols(l, 8, 15))
    /\ IsFloat(Cols(l, 17, 24))
    /\ IsFloat(EccentricityText(l))
    /\ IsFloat(Cols(l, 34, 41))
    /\ IsFloat(Cols(l, 43, 50))
    /\ IsFloat(Cols(l, 52, 62))
    /\ IsInt(Cols(l, 63, 67))

NoneResult == [kind |-> "None"]

RaisedResult(err) == [kind |-> "raised", error |-> err]

\* the dictionary parse_tle_lines returns (the entries the properties below read)
TleRecord(l1, l2) ==
    [kind |-> "record",
     catalog_number |-> IntValue(Cols(l1, 2, 6)),
     mean_motion_second_derivative |-> parse_scientific_notation(Cols(l1, 44, 51)).value,
     drag_term |-> parse_scientific_notation(Cols(l1, 53, 60)).value,
     eccentricity |-> CentiValue(EccentricityText(l2)),
     mean_motion_rev_per_day |-> CentiValue(Cols(l2, 52, 62)),
     computed_parameters |->
         calculate_orbital_parameters(CentiValue(Cols(l2, 52, 62)),
                                      CentiValue(EccentricityText(l2))),
     raw_lines |-> [line1 |-> l1, line2 |-> l2],
     checksum_line1 |-> calculate_checksum(l1),
     checksum_line2 |-> calculate_checksum(l2)]

\* the outcome of one call: a record, None, or an exception leaving the call
\* (_validate_tle_format runs before the try block; everything after it runs inside)
parse_tle_lines(l1, l2) ==
    LET valid == validate_tle_format(l1, l2)
    IN  IF valid = "ValueError" THEN RaisedResult("ValueError")
        ELSE IF valid = "invalid" THEN NoneResult
        ELSE IF ~line1_match(l1) THEN NoneResult
        ELSE IF ~Line1FieldsOk(l1) THEN NoneResult
        ELSE IF ~line2_match(l2) THEN NoneResult
        ELSE IF ~Line2FieldsOk(l2) THEN NoneResult
        ELSE IF IsZeroFloat(Cols(l2, 52, 62)) THEN NoneResult
        ELSE TleRecord(l1, l2)

(***************************************************************************)
(* Inputs of the codec                                                     *)
(***************************************************************************)
\* the NORAD rule for a line's last character: every digit counts its value, every
\* '-' counts 1, modulo 10 (the rule the data source stamps lines with)
TleChecksum(l) ==
    LET body == 1..(Len(l) - 1)
        Count(c) == Cardinality({i \in body : l[i] = c})
        RECURSIVE Weighted(_)
        Weighted(k) == IF k = 0 THEN 0 ELSE k * Count(DigitChars[k + 1]) + Weighted(k - 1)
    IN  (Weighted(9) + Count("-")) % 10

\* a line with its last character set to its checksum
Stamp(l) == [l EXCEPT ![Len(l)] = DigitChars[TleChecksum(l) + 1]]

\* columns a.. of a line replaced by a field
Splice(l, a, field) ==
    [i \in 1..Len(l) |->
        IF i >= a + 1 /\ i <= a + Len(field) THEN field[i - a] ELSE l[i]]

ISS_LINE1 ==
    <<"1", " ", "2", "5", "5", "4", "4", "U", " ", "9", "8", "0", "6", "7", "A", " ",
      " ", " ", "2", "1", "2", "7", "5", ".", "5", "2", "5", "0", "1", "0", "3", "0",
      " ", " ", ".", "0", "0", "0", "0", "1", "2", "6", "4", " ", " ", "0", "0", "0",
      "0", "0", "-", "0", " ", " ", "2", "9", "6", "2", "1", "-", "4", " ", "0", " ",
      " ", "9", "9", "9", "0">>

ISS_LINE2 ==
    <<"2", " ", "2", "5", "5", "4", "4", " ", " ", "5", "1", ".", "6", "4", "4", "2",
      " ", "2", "0", "8", ".", "5", "4", "5", "3", " ", "0", "1", "0", "0", "0", "0",
      "0", " ", " ", "6", "9", ".", "5", "2", "4", "2", " ", " ", "4", "7", ".", "0",
      "4", "6", "9", " ", "1", "5", ".", "5", "0", "0", "0", "0", "0", "0", "0", "3",
      "0", "4", "8", "1", "7">>

\* drag-term fields (columns 53-60): well-formed ones, a letter in the mantissa, an
\* exponent too large for a float
DragFields ==
    {<<" ", "2", "9", "6", "2", "1", "-", "4">>,
     <<" ", "0", "0", "0", "0", "0", "+", "0">>,
     <<" ", "0", "0", "0", "0", "0", "-", "0">>,
     <<" ", "1", "2", "3", "4", "5", "-", "3">>,
     <<"-", "1", "2", "3", "4", "5", "+", "2">>,
     <<" ", "1", "2", "3", "4", "U", "-", "3">>,
     <<" ", " ", " ", "1", "+", "4", "0", "0">>}

\* classification (column 7), epoch (18-31) and element number (64-67) variants
Line1Variants ==
    {Splice(ISS_LINE1, 7, <<"u">>),
     Splice(ISS_LINE1, 18, <<"2", "1", "9", "9", "9", "9", "9", "9", "9", ".", "0", "0", "0", "0">>),
     Splice(ISS_LINE1, 64, <<" ", " ", " ", " ">>)}

\* a line made malformed: too short, too long, wrong line number, checksum off by
\* one, a last character that is no digit
Malformed(l, wrongFirst) ==
    {SubSeq(l, 1, Len(l) - 1),
     l \o <<"0">>,
     [l EXCEPT ![1] = wrongFirst],
     [l EXCEPT ![Len(l)] = DigitChars[((TleChecksum(l) + 1) % 10) + 1]],
     [l EXCEPT ![Len(l)] = "X"],
     [l EXCEPT ![Len(l)] = " "]}

Line1Inputs ==
    {Stamp(Splice(ISS_LINE1, 53, f)) : f \in DragFields}
        \cup {Stamp(v) : v \in Line1Variants}
        \cup Malformed(ISS_LINE1, "2")

\* mean-motion fields (columns 52-62): five orbits, a zero, a letter
MeanMotionFields ==
    {<<"1", "6", ".", "0", "0", "0", "0", "0", "0", "0", "0">>,
     <<"1", "5", ".", "5", "0", "0", "0", "0", "0", "0", "0">>,
     <<"1", "4", ".", "0", "0", "0", "0", "0", "0", "0", "0">>,
     <<"1", "3", ".", "0", "0", "0", "0", "0", "0", "0", "0">>,
     <<"1", "2", ".", "5", "0", "0", "0", "0", "0", "0", "0">>,
     <<" ", "0", ".", "0", "0", "0", "0", "0", "0", "0", "0">>,
     <<"1", "5", ".", "5", "0", "0", "0", "0", "0", "0", "U">>}

\* eccentricity fields (columns 26-32): 0, 0.01, 0.02, 0.05, 0.10, and a sign
EccentricityFields ==
    {<<"0", "0", "0", "0", "0", "0", "0">>,
     <<"0", "1", "0", "0", "0", "0", "0">>,
     <<"0", "2", "0", "0", "0", "0", "0">>,
     <<"0", "5", "0", "0", "0", "0", "0">>,
     <<"1", "0", "0", "0", "0", "0", "0">>,
     <<"0", "0", "-", "0", "1", "0", "0">>}

\* line 2 of another object (catalog number 20580 in columns 3-7), checksum stamped
OtherObjectLine2 == Stamp(Splice(ISS_LINE2, 2, <<"2", "0", "5", "8", "0">>))

Line2Inputs ==
    {Stamp(Splice(Splice(ISS_LINE2, 52, m), 26, e)) :
        m \in MeanMotionFields, e \in EccentricityFields}
        \cup Malformed(ISS_LINE2, "1")
        \cup {OtherObjectLine2}

(***************************************************************************)
(* One parse_tle_lines call on an enumerated pair of lines                 *)
(***************************************************************************)
Pending == [kind |-> "pending"]

CodecIdle == line1 = <<>> /\ line2 = <<>> /\ parsed = Pending

ChecksumIdle == cline = <<>> /\ verified = "pending" /\ replaced = FALSE

CodecInit ==
    /\ line1 \in Line1Inputs
    /\ line2 \in Line2Inputs
    /\ parsed = Pending

\* parse_tle_lines(name, line1, line2) runs to its end
ParseTleLines ==
    /\ parsed.kind = "pending"
    /\ parsed' = parse_tle_lines(line1, line2)
    /\ UNCHANGED <<line1, line2>>

(***************************************************************************)
(* _verify_checksum on a line, before and after one digit is replaced      *)
(***************************************************************************)
ChecksumInit ==
    /\ cline \in Line1Inputs \cup Line2Inputs
    /\ verified = "pending"
    /\ replaced = FALSE

\* _verify_checksum(cline) runs to its end
VerifyChecksum ==
    /\ verified = "pending"
    /\ verified' = verify_checksum_call(cline)
    /\ UNCHANGED <<cline, replaced>>

\* one digit outside the last position of a verifying line becomes another digit,
\* the checksum character staying as it is
ReplaceDigit(p, d) ==
    /\ verified = "true"
    /\ ~replaced
    /\ isdigit(cline[p])
    /\ d # cline[p]
    /\ cline' = [cline EXCEPT ![p] = d]
    /\ verified' = "pending"
    /\ replaced' = TRUE

(***************************************************************************)
(* HybridOrbitDecayPredictor: train and predict_decay_rate, statement by   *)
(* statement, for one or several calling threads                           *)
(***************************************************************************)
\* worker threads that may call the predictor at once
NumThreads == 2

\* public calls made on the predictor in one run
MaxCalls == 3

Threads == 1..NumThreads

\* the caller of the sequential runs
MainThread == CHOOSE t \in Threads : \A u \in Threads : t <= u

\* the regressors in the order train fits them (the dict `models`)
Models == <<"random_forest", "gradient_boosting", "neural_network">>

\* getattr(self.config, 'ML_TRAINING_SAMPLES', 5000)
ML_TRAINING_SAMPLES == 5000

\* n_samples as callers pass it: 0 stands for None, the other for an explicit count
TrainArgs == {0, 1000}

\* what one regressor's predict() may return, in 1e-4 km/day: the regressors are
\* library code, so any value, a negative one included, for any feature vector
RegressorOutputs == {-50, 5, 30}

\* the floor 0.001 km/day, in 1e-5 km/day
DecayFloor == 100

\* rf_pred * 0.4 + gb_pred * 0.4 + nn_pred * 0.2, in 1e-5 km/day
Blend(rf_pred, gb_pred, nn_pred) == 4 * rf_pred + 4 * gb_pred + 2 * nn_pred

\* the value returned without the floor
Unfloored(blend) == blend

\* max(0.001, decay_rate)
Floored(blend) == IF DecayFloor >= blend THEN DecayFloor ELSE blend

NoMetrics == [m \in 1..3 |-> 0]

PredictorInit ==
    /\ is_trained = FALSE
    /\ scaler = 0
    /\ fitted = [m \in 1..3 |-> 0]
    /\ model_metrics = NoMetrics
    /\ fitting = {}
    /\ pc = [t \in Threads |-> "idle"]
    /\ op = [t \in Threads |-> "none"]
    /\ arg = [t \in Threads |-> 0]
    /\ n_samples = [t \in Threads |-> 0]
    /\ step = [t \in Threads |-> 0]
    /\ decay_rate = [t \in Threads |-> 0]
    /\ calls = 0
    /\ train_runs = 0
    /\ log = <<>>
    /\ observed_trained = FALSE
    /\ read_during_fit = FALSE

\* a caller invokes predictor.train(n_samples)
CallTrain(t, n) ==
    /\ pc[t] = "idle"
    /\ calls < MaxCalls
    /\ pc' = [pc EXCEPT ![t] = "train_check"]
    /\ op' = [op EXCEPT ![t] = "train"]
    /\ arg' = [arg EXCEPT ![t] = n]
    /\ calls' = calls + 1
    /\ UNCHANGED <<modelVars, n_samples, step, decay_rate, train_runs, log,
                   observed_trained, read_during_fit>>
    /\ UNCHANGED <<codecVars, checksumVars, serviceVars>>

\* a caller invokes predictor.predict_decay_rate(...)
CallPredict(t) ==
    /\ pc[t] = "idle"
    /\ calls < MaxCalls
    /\ pc' = [pc EXCEPT ![t] = "predict_check"]
    /\ op' = [op EXCEPT ![t] = "predict"]
    /\ arg' = [arg EXCEPT ![t] = 0]
    /\ calls' = calls + 1
    /\ UNCHANGED <<modelVars, n_samples, step, decay_rate, train_runs, log,
                   observed_trained, read_during_fit>>
    /\ UNCHANGED <<codecVars, checksumVars, serviceVars>>

\* train with its guard `if self.is_trained: return` left out
TrainCheckUnguarded(t) ==
    /\ pc[t] = "train_check"
    /\ n_samples' = [n_samples EXCEPT ![t] = IF arg[t] = 0 THEN ML_TRAINING_SAMPLES ELSE arg[t]]
    /\ train_runs' = train_runs + 1
    /\ step' = [step EXCEPT ![t] = 0]
    /\ pc' = [pc EXCEPT ![t] = "fit_begin"]
    /\ UNCHANGED <<modelVars, op, arg, decay_rate, calls, log, observed_trained,
                   read_during_fit>>
    /\ UNCHANGED <<codecVars, checksumVars, serviceVars>>

\* train, lines 261-270: the guard, then the default of n_samples and the data
TrainCheck(t) ==
    /\ pc[t] = "train_check"
    /\ IF is_trained
       THEN /\ pc' = [pc EXCEPT ![t] = "train_return"]
            /\ observed_trained' = TRUE
            /\ UNCHANGED <<n_samples, train_runs, step>>
       ELSE /\ n_samples' = [n_samples EXCEPT
                                ![t] = IF arg[t] = 0 THEN ML_TRAINING_SAMPLES ELSE arg[t]]
            /\ train_runs' = train_runs + 1
            /\ step' = [step EXCEPT ![t] = 0]
            /\ pc' = [pc EXCEPT ![t] = "fit_begin"]
            /\ UNCHANGED observed_trained
    /\ UNCHANGED <<modelVars, op, arg, decay_rate, calls, log, read_during_fit>>
    /\ UNCHANGED <<codecVars, checksumVars, serviceVars>>

\* scaler.fit_transform (line 273) or model.fit (line 289) starts writing its object
FitBegin(t) ==
    /\ pc[t] = "fit_begin"
    /\ fitting' = fitting \cup {<<t, step[t]>>}
    /\ pc' = [pc EXCEPT ![t] = "fit_end"]
    /\ UNCHANGED <<is_trained, scaler, fitted, model_metrics, op, arg, n_samples, step,
                   decay_rate, observeVars>>
    /\ UNCHANGED <<codecVars, checksumVars, serviceVars>>

\* the fit ends; for a regressor its metrics are stored (lines 292-300)
FitEnd(t) ==
    /\ pc[t] = "fit_end"
    /\ fitting' = fitting \ {<<t, step[t]>>}
    /\ IF step[t] = 0
       THEN /\ scaler' = n_samples[t]
            /\ UNCHANGED <<fitted, model_metrics>>
       ELSE /\ fitted' = [fitted EXCEPT ![step[t]] = n_samples[t]]
            /\ model_metrics' = [model_metrics EXCEPT ![step[t]] = n_samples[t]]
            /\ UNCHANGED scaler
    /\ IF step[t] < Len(Models)
       THEN /\ step' = [step EXCEPT ![t] = step[t] + 1]
            /\ pc' = [pc EXCEPT ![t] = "fit_begin"]
       ELSE /\ pc' = [pc EXCEPT ![t] = "train_finish"]
            /\ UNCHANGED step
    /\ UNCHANGED <<is_trained, op, arg, n_samples, decay_rate, observeVars>>
    /\ UNCHANGED <<codecVars, checksumVars, serviceVars>>

\* train without its `self.is_trained = True`
TrainFinishUnmarked(t) ==
    /\ pc[t] = "train_finish"
    /\ pc' = [pc EXCEPT ![t] = "train_return"]
    /\ UNCHANGED <<modelVars, op, arg, n_samples, step, decay_rate, observeVars>>
    /\ UNCHANGED <<codecVars, checksumVars, serviceVars>>

\* train, line 304
TrainFinish(t) ==
    /\ pc[t] = "train_finish"
    /\ is_trained' = TRUE
    /\ pc' = [pc EXCEPT ![t] = "train_return"]
    /\ UNCHANGED <<scaler, fitted, model_metrics, fitting, op, arg, n_samples, step,
                   decay_rate, observeVars>>
    /\ UNCHANGED <<codecVars, checksumVars, serviceVars>>

\* `return self.model_metrics` (lines 262 and 306): to the caller, or back into
\* predict_decay_rate when it was predict that called train
TrainReturn(t) ==
    /\ pc[t] = "train_return"
    /\ IF op[t] = "train"
       THEN /\ log' = Append(log, [op |-> "train", arg |-> arg[t], ret |-> model_metrics,
                                    blend |-> 0])
            /\ pc' = [pc EXCEPT ![t] = "idle"]
       ELSE /\ pc' = [pc EXCEPT ![t] = "predict_read"]
            /\ UNCHANGED log
    /\ UNCHANGED <<modelVars, op, arg, n_samples, step, decay_rate, calls, train_runs,
                   observed_trained, read_during_fit>>
    /\ UNCHANGED <<codecVars, checksumVars, serviceVars>>

\* predict_decay_rate, lines 324-325
PredictCheck(t) ==
    /\ pc[t] = "predict_check"
    /\ IF is_trained
       THEN /\ pc' = [pc EXCEPT ![t] = "predict_read"]
            /\ observed_trained' = TRUE
       ELSE /\ pc' = [pc EXCEPT ![t] = "train_check"]
            /\ UNCHANGED observed_trained
    /\ UNCHANGED <<modelVars, op, arg, n_samples, step, decay_rate, calls, train_runs, log,
                   read_during_fit>>
    /\ UNCHANGED <<codecVars, checksumVars, serviceVars>>

\* predict_decay_rate, lines 327-337: the scaler and the three regressors are read
PredictRead(t, rf_pred, gb_pred, nn_pred) ==
    /\ pc[t] = "predict_read"
    /\ decay_rate' = [decay_rate EXCEPT ![t] = Blend(rf_pred, gb_pred, nn_pred)]
    /\ read_during_fit' = (read_during_fit \/ fitting # {})
    /\ pc' = [pc EXCEPT ![t] = "predict_return"]
    /\ UNCHANGED <<modelVars, op, arg, n_samples, step, calls, train_runs, log,
                   observed_trained>>
    /\ UNCHANGED <<codecVars, checksumVars, serviceVars>>

\* the same read while another thread's fit is rewriting the object read: the
\* library call may also raise, and the exception leaves predict_decay_rate
PredictReadRaises(t) ==
    /\ pc[t] = "predict_read"
    /\ fitting # {}
    /\ read_during_fit' = TRUE
    /\ log' = Append(log, [op |-> "predict", arg |-> 0, ret |-> NoMetrics, blend |-> 0])
    /\ pc' = [pc EXCEPT ![t] = "idle"]
    /\ UNCHANGED <<modelVars, op, arg, n_samples, step, decay_rate, calls, train_runs,
                   observed_trained>>
    /\ UNCHANGED <<codecVars, checksumVars, serviceVars>>

\* predict_decay_rate, line 339
PredictReturn(t) ==
    /\ pc[t] = "predict_return"
    /\ log' = Append(log, [op |-> "predict", arg |-> 0,
                           ret |-> Floored(decay_rate[t]), blend |-> decay_rate[t]])
    /\ pc' = [pc EXCEPT ![t] = "idle"]
    /\ UNCHANGED <<modelVars, op, arg, n_samples, step, decay_rate, calls, train_runs,
                   observed_trained, read_during_fit>>
    /\ UNCHANGED <<codecVars, checksumVars, serviceVars>>

(***************************************************************************)
(* ReentryAnalyzer: predict_reentry_window and its risk factors.  Altitudes *)
(* are whole kilometres, inclinations whole degrees, eccentricities        *)
(* hundredths, decay rates 1e-5 km/day, days whole days (rounded down:     *)
(* every threshold they are compared with is a whole number), risks        *)
(* thousandths once rounded.                                               *)
(***************************************************************************)
Min(a, b) == IF a <= b THEN a ELSE b

Max(a, b) == IF a >= b THEN a ELSE b

\* the altitudes, inclinations and eccentricities a propagated TLE may carry: below
\* the reentry boundary, in each density band, above 1000 km; a negative
\* inclination (the 8-character field of line 2 takes a sign), a retrograde one
Altitudes == {50, 250, 400, 700, 900, 1200}

Inclinations == {-90, -30, 0, 30, 90, 150}

Eccentricities == {0, 1, 30, 70}

\* np.sin(np.radians(inclination)), in thousandths, at the inclinations above
SinMilli(inclination) ==
    CASE inclination = -90 -> -1000
      [] inclination = -30 -> -500
      [] inclination = 0 -> 0
      [] inclination = 30 -> 500
      [] inclination = 90 -> 1000
      [] inclination = 150 -> 500

\* the decay rate of _generate_training_data before its eccentricity and inclination
\* factors, in 1e-13 km/day, for mass 1000, area 10 and solar flux 150: the source
\* expression (density band, ballistic coefficient, altitude scaling) at each altitude
BaseDecay(altitude) ==
    CASE altitude = 50 -> 2587
      [] altitude = 200 -> 2061
      [] altitude = 250 -> 1184
      [] altitude = 400 -> 303
      [] altitude = 700 -> 2
      [] altitude = 900 -> 1
      [] altitude = 1200 -> 0
      [] altitude = 2000 -> 0

\* decay_rate *= (1 + eccentricity); decay_rate *= 1 + 0.1 * sin(inclination)
PhysicsDecay(altitude, inclination, eccentricity) ==
    (((BaseDecay(altitude) * (100 + eccentricity)) \div 100)
        * (10000 + SinMilli(inclination))) \div 10000

\* 1e-4 km/day in units of 1e-13 km/day
E13PerE4 == 1000000000

\* the target the generator stores, max(0.001, decay_rate), in 1e-4 km/day
GeneratedTarget(altitude, inclination, eccentricity) ==
    Max(DecayFloor \div 10, PhysicsDecay(altitude, inclination, eccentricity) \div E13PerE4)

\* altitude_at_reentry = 100
ReentryAltitude == 100

\* 1 km in units of 1e-5 km
E5PerKm == 100000

\* max((altitude - altitude_at_reentry) / decay_rate, 0), or 365 * 100 for a decay
\* rate that is not positive
DaysToReentry(altitude, rate) ==
    IF rate > 0
    THEN Max(((altitude - ReentryAltitude) * E5PerKm) \div rate, 0)
    ELSE 365 * 100

\* a time risk whose steps take their upper end in
TimeRiskInclusive(days_to_reentry) ==
    IF days_to_reentry <= 30 THEN 3600
    ELSE IF days_to_reentry <= 365 THEN 2400
    ELSE IF days_to_reentry <= 365 * 5 THEN 1200
    ELSE 400

\* time_risk * 0.5, in 1/8000
TimeRisk(days_to_reentry) ==
    IF days_to_reentry < 30 THEN 3600
    ELSE IF days_to_reentry < 365 THEN 2400
    ELSE IF days_to_reentry < 365 * 5 THEN 1200
    ELSE 400

\* _calculate_reentry_risk in 1/8000: altitude_risk * 0.3 is 3 * (1000 - altitude)
\* clipped to [0, 2400], ecc_risk * 0.2 is 32 per hundredth clipped at 1600
calculate_reentry_risk(days_to_reentry, altitude, inclination, eccentricity) ==
    LET altitude_risk == Max(0, Min(2400, 3 * (1000 - altitude)))
        ecc_risk == Min(1600, 32 * eccentricity)
        overall_risk == TimeRisk(days_to_reentry) + altitude_risk + ecc_risk
    IN  Min(8000, overall_risk)

\* min(1, inclination / 90) * 0.4, in 1/18000
InclinationFactor(inclination) == Min(7200, 80 * inclination)

\* _calculate_spatial_risk in 1/18000: altitude_factor * 0.4 is 12 * (800 - altitude)
\* clipped to [0, 7200], time_factor * 0.2 is 3600 or 1800
calculate_spatial_risk(inclination, altitude, days_to_reentry) ==
    LET altitude_factor == Max(0, Min(7200, 12 * (800 - altitude)))
        time_factor == IF days_to_reentry < 30 THEN 3600 ELSE 1800
        spatial_risk == InclinationFactor(inclination) + altitude_factor + time_factor
    IN  Min(18000, spatial_risk)

\* what the regressors of the analyzer's predictor may return for an orbit, in
\* 1e-4 km/day: any value, among them the target the generator gives that orbit
AnalyzerRegressorOutputs(o) ==
    RegressorOutputs \cup {GeneratedTarget(o.altitude, o.inclination, o.eccentricity)}

AnalyzerIdle == orbit = [altitude |-> 0, inclination |-> 0, eccentricity |-> 0]
                /\ reentry = Pending


AnalyzerInit ==
    /\ orbit \in [altitude : Altitudes, inclination : Inclinations,
                  eccentricity : Eccentricities]
    /\ reentry = Pending

\* the reentry timing without the floor of the predictor in view: a rate at the
\* floor is taken for a stable orbit
ReentryTimingStableAtFloor(altitude, rate) ==
    IF rate > DecayFloor
    THEN [days_to_reentry |-> DaysToReentry(altitude, rate),
          days |-> <<Max((altitude - ReentryAltitude) * E5PerKm, 0), rate>>,
          predicted_date |-> "date"]
    ELSE [days_to_reentry |-> 365 * 100, days |-> <<365 * 100, 1>>,
          predicted_date |-> "None"]

\* the branch on decay_rate > 0: days_to_reentry in whole days and as the exact
\* quotient <<numerator, denominator>>, reentry_date as "date" (utcnow() plus the days,
\* or utcnow() itself for days_to_reentry = 0) or "None"
ReentryTiming(altitude, rate) ==
    IF rate > 0
    THEN [days_to_reentry |-> DaysToReentry(altitude, rate),
          days |-> <<Max((altitude - ReentryAltitude) * E5PerKm, 0), rate>>,
          predicted_date |-> "date"]
    ELSE [days_to_reentry |-> DaysToReentry(altitude, rate), days |-> <<365 * 100, 1>>,
          predicted_date |-> "None"]

\* _calculate_uncertainty, rounded to tenths of a day, for days = days[1] / days[2]:
\* min(days * 0.5, max(1, days * 0.1) * f), f = 1.5 below 300 km or above 1500 km,
\* doubled for a decay rate under 0.01 km/day
calculate_uncertainty(days, altitude, rate) ==
    LET twice_f == (IF altitude < 300 \/ altitude > 1500 THEN 3 ELSE 2)
                       * (IF rate < 10 * DecayFloor THEN 2 ELSE 1)
    IN  RoundHalfEven(Min(10 * days[1], Max(10 * days[2], days[1]) * twice_f),
                      2 * days[2])

\* a report whose reentry timing is cut off at the forecast period
predict_reentry_window_within(o, regressors, forecast_days) ==
    LET rate == Floored(Blend(regressors[1], regressors[2], regressors[3]))
        timing == ReentryTiming(o.altitude, rate)
        days_to_reentry == Min(timing.days_to_reentry, forecast_days)
    IN  [kind |-> "result",
         regressors |-> regressors,
         orbital_parameters |-> o,
         predicted_decay_rate |-> rate,
         days_to_reentry |-> days_to_reentry,
         predicted_date |-> timing.predicted_date,
         days_from_now |-> Min(RoundHalfEven(10 * timing.days[1], timing.days[2]),
                               10 * forecast_days),
         uncertainty_days |-> calculate_uncertainty(timing.days, o.altitude, rate),
         overall_reentry_risk |->
             RoundHalfEven(calculate_reentry_risk(days_to_reentry, o.altitude,
                                                  o.inclination, o.eccentricity), 8),
         peak_spatial_risk |->
             RoundHalfEven(calculate_spatial_risk(o.inclination, o.altitude,
                                                  days_to_reentry), 18)]

\* predict_reentry_window from the extracted elements on: decay rate of the ensemble
\* for the regressors' outputs, reentry timing, the two risks, the rounded report
\* (days_from_now and uncertainty_days in tenths, the risks in thousandths);
\* forecast_days is a parameter the body never reads
predict_reentry_window(o, regressors, forecast_days) ==
    LET rate == Floored(Blend(regressors[1], regressors[2], regressors[3]))
        timing == ReentryTiming(o.altitude, rate)
        days_to_reentry == timing.days_to_reentry
    IN  [kind |-> "result",
         regressors |-> regressors,
         orbital_parameters |-> o,
         predicted_decay_rate |-> rate,
         days_to_reentry |-> days_to_reentry,
         predicted_date |-> timing.predicted_date,
         days_from_now |-> RoundHalfEven(10 * timing.days[1], timing.days[2]),
         uncertainty_days |-> calculate_uncertainty(timing.days, o.altitude, rate),
         overall_reentry_risk |->
             RoundHalfEven(calculate_reentry_risk(days_to_reentry, o.altitude,
                                                  o.inclination, o.eccentricity), 8),
         peak_spatial_risk |->
             RoundHalfEven(calculate_spatial_risk(o.inclination, o.altitude,
                                                  days_to_reentry), 18)]

\* the default forecast period of predict_reentry_window, in days
DefaultForecastDays == 30

\* one call of predict_reentry_window for the orbit of the state
PredictReentryWindow(rf_pred, gb_pred, nn_pred) ==
    /\ reentry = Pending
    /\ reentry' = predict_reentry_window(orbit, <<rf_pred, gb_pred, nn_pred>>,
                                         DefaultForecastDays)
    /\ UNCHANGED orbit

(***************************************************************************)
(* _generate_training_data: one sample of the loop, from its feature       *)
(* vector to its target.  Rates are in 1e-10 km/day here.                  *)
(***************************************************************************)
\* the ends and some inner points of np.random.uniform(200, 2000), (100, 10000),
\* (1, 100) and (80, 250)
GeneratorAltitudes == {200, 250, 400, 700, 900, 1200, 2000}

Masses == {100, 1000, 10000}

Areas == {1, 10, 100}

SolarFluxes == {80, 150, 250}

\* (solar_flux / 150) ** 0.5, in thousandths
SqrtFluxMilli(solar_flux) ==
    CASE solar_flux = 80 -> 730
      [] solar_flux = 150 -> 1000
      [] solar_flux = 250 -> 1291

\* a decay rate for air ten thousand times as dense
physics_decay_rate_dense(f) ==
    LET at_flux == (PhysicsDecay(f.altitude, f.inclination, f.eccentricity)
                       * SqrtFluxMilli(f.solar_flux)) \div 1000
    IN  ((((at_flux * f.area * f.area) \div 100) * 1000) \div f.mass) * 10

\* decay_rate before the floor: the rate at mass 1000, area 10 and solar flux 150,
\* scaled by the density's (solar_flux / 150) ** 0.5 and by area * area / mass
\* (density * area * cd * 86400 / (2 * mass / (cd * area)))
physics_decay_rate(f) ==
    LET at_flux == (PhysicsDecay(f.altitude, f.inclination, f.eccentricity)
                       * SqrtFluxMilli(f.solar_flux)) \div 1000
    IN  ((((at_flux * f.area * f.area) \div 100) * 1000) \div f.mass) \div 1000

\* the floor 0.001 km/day of the targets, in 1e-10 km/day
TargetFloor == 10000000

\* one round of the loop: decay_rates.append(max(0.001, decay_rate))
GenerateSample(f) ==
    /\ sample = Pending
    /\ sample' = [kind |-> "sample", features |-> f,
                  decay_rate |-> physics_decay_rate(f),
                  target |-> Max(TargetFloor, physics_decay_rate(f))]

(***************************************************************************)
(* _calculate_reentry_risk on its own arguments                            *)
(***************************************************************************)
\* days_to_reentry on both sides of every step of the time risk
ScoreDays == {0, 29, 30, 31, 364, 365, 366, 1824, 1825, 36500}

\* altitudes on both sides of the ends of the altitude risk's ramp
ScoreAltitudes == {50, 199, 200, 201, 600, 999, 1000, 1200}

\* eccentricities (hundredths) on both sides of the end of the eccentricity risk's ramp
ScoreEccentricities == {0, 1, 30, 49, 50, 51, 70}

\* one call of _calculate_reentry_risk (the inclination is a parameter it never reads)
CalculateReentryRisk(days_to_reentry, altitude, eccentricity) ==
    /\ scored = Pending
    /\ scored' = [kind |-> "scored", days_to_reentry |-> days_to_reentry,
                  altitude |-> altitude, eccentricity |-> eccentricity,
                  risk |-> calculate_reentry_risk(days_to_reentry, altitude, 0,
                                                  eccentricity)]

(***************************************************************************)
(* _categorize_risk and _aggregate_results.  Scores and thresholds are in  *)
(* thousandths.                                                            *)
(***************************************************************************)
\* getattr(config, 'RISK_THRESHOLD_MEDIUM', 0.4), getattr(config, 'RISK_THRESHOLD_HIGH', 0.7)
DefaultThresholds == [medium |-> 400, high |-> 700]

\* the defaults, the values of config.py (2.0 and 3.5), equal thresholds, and a
\* medium threshold above the high one
ThresholdConfigs ==
    {DefaultThresholds, [medium |-> 2000, high |-> 3500], [medium |-> 500, high |-> 500],
     [medium |-> 700, high |-> 400]}

\* overall_reentry_risk values on both sides of the default thresholds
Scores == {0, 399, 400, 699, 700, 1000}

\* results one _aggregate_results call is handed
MaxAnalysed == 3

\* a categorisation that takes a score equal to a threshold for the lower category
categorize_risk_above(risk_score, thresholds) ==
    IF risk_score > thresholds.high THEN "HIGH"
    ELSE IF risk_score > thresholds.medium THEN "MEDIUM"
    ELSE "LOW"

\* _categorize_risk
categorize_risk(risk_score, thresholds) ==
    IF risk_score >= thresholds.high THEN "HIGH"
    ELSE IF risk_score >= thresholds.medium THEN "MEDIUM"
    ELSE "LOW"

\* sum(1 for score in risk_scores if lo <= score < hi), a bound of -1 standing for none
CountScores(rs, lo, hi) ==
    Cardinality({i \in 1..Len(rs) :
        /\ (lo = -1 \/ lo <= rs[i].overall_reentry_risk)
        /\ (hi = -1 \/ rs[i].overall_reentry_risk < hi)})

\* _aggregate_results: {} for no results, else the counts (the altitude and
\* confidence statistics are not modelled)
aggregate_results(rs, thresholds) ==
    IF rs = <<>> THEN <<>>
    ELSE [total_satellites |-> Len(rs),
          high_risk_satellites |-> CountScores(rs, thresholds.medium, -1),
          risk_distribution |->
              [high |-> CountScores(rs, thresholds.high, -1),
               medium |-> CountScores(rs, thresholds.medium, thresholds.high),
               low |-> CountScores(rs, -1, thresholds.medium)]]

\* a service is configured
InitAggregate ==
    /\ risk_thresholds \in ThresholdConfigs
    /\ analysed = <<>> /\ aggregated = Pending

\* process_single_satellite puts the category of its score into a result of the batch
AnalysedOne(score) ==
    /\ aggregated = Pending
    /\ Len(analysed) < MaxAnalysed
    /\ analysed' = Append(analysed,
                          [overall_reentry_risk |-> score,
                           risk_category |-> categorize_risk(score, risk_thresholds)])
    /\ UNCHANGED <<risk_thresholds, aggregated>>

\* aggregated = self._aggregate_results(results)
AggregateResults ==
    /\ aggregated = Pending
    /\ aggregated' = [kind |-> "summary",
                      summary |-> aggregate_results(analysed, risk_thresholds)]
    /\ UNCHANGED <<risk_thresholds, analysed>>

(***************************************************************************)
(* SpaceDebrisService over its lifetime: the constructor, then             *)
(* process_single_satellite calls on well-formed TLEs.  The service holds  *)
(* two HybridOrbitDecayPredictor instances: self.predictor and the one     *)
(* ReentryAnalyzer.__init__ constructs for itself.                         *)
(***************************************************************************)
Predictors == {"self.predictor", "self.analyzer.predictor"}

\* process_single_satellite calls in one lifetime
MaxAnalyses == 2

NoService ==
    [constructed |-> FALSE,
     is_trained |-> [p \in Predictors |-> FALSE],
     train_runs |-> [p \in Predictors |-> 0]]

\* SpaceDebrisService.__init__: both predictors are constructed untrained, then
\* _initialize_models trains self.predictor
ServiceInit ==
    /\ ~service.constructed
    /\ service' = [constructed |-> TRUE,
                   is_trained |-> [p \in Predictors |-> p = "self.predictor"],
                   train_runs |-> [p \in Predictors |->
                                      IF p = "self.predictor" THEN 1 ELSE 0]]
    /\ UNCHANGED analyses

\* process_single_satellite on a TLE whose propagated elements are o: the analyzer asks
\* its own predictor, whose predict_decay_rate trains it first if it is untrained;
\* the result carries the report, the category of its risk, and the metadata
ProcessSingleSatellite(o, regressors, forecast_days) ==
    /\ service.constructed
    /\ Len(analyses) < MaxAnalyses
    /\ LET trains == ~service.is_trained["self.analyzer.predictor"]
           report == predict_reentry_window(o, regressors, forecast_days)
       IN  /\ service' =
                  [service EXCEPT
                      !.is_trained["self.analyzer.predictor"] = TRUE,
                      !.train_runs["self.analyzer.predictor"] =
                          IF trains THEN @ + 1 ELSE @]
           /\ analyses' =
                  Append(analyses,
                         [orbit |-> o, forecast_days |-> forecast_days,
                          started_training |-> trains,
                          reentry |-> report,
                          risk_category |-> categorize_risk(report.overall_reentry_risk,
                                                            risk_thresholds),
                          metadata |->
                              [forecast_days |-> forecast_days,
                               model_version |->
                                   [is_trained |-> service.is_trained["self.predictor"]]]])

(***************************************************************************)
(* process_multiple_satellites called by several threads on one service:   *)
(* the statements that touch the attribute self._group_metadata.  Each     *)
(* request holds one identifier (index 0), a group or a single object; the *)
(* dictionary is modelled by the call that owns its entry 0 (0: empty).    *)
(***************************************************************************)
Absent == [present |-> FALSE, owner |-> 0]

Requests == {"group", "single"}

CallAt(t, at) == batch_call[t].pc = at

\* threads enter process_multiple_satellites, the attribute not being set
InitCalls ==
    /\ group_attr = Absent
    /\ batch_call \in [Threads -> {[request |-> r, pc |-> "collect", errors |-> 0,
                                    copied |-> {}, response |-> Pending] : r \in Requests}]

\* the loop body for the future of index 0: a single result is appended; for a group
\* result, `if not hasattr(self, '_group_metadata')` is evaluated
CollectFuture(t) ==
    /\ CallAt(t, "collect")
    /\ batch_call' = [batch_call EXCEPT ![t].pc =
           IF batch_call[t].request = "single" THEN "respond"
           ELSE IF group_attr.present THEN "assign" ELSE "create"]
    /\ UNCHANGED group_attr

\* self._group_metadata = {}
CreateAttr(t) ==
    /\ CallAt(t, "create")
    /\ group_attr' = [present |-> TRUE, owner |-> 0]
    /\ batch_call' = [batch_call EXCEPT ![t].pc = "assign"]

\* self._group_metadata[i] = {...}: an AttributeError for an attribute deleted in
\* between goes to the except of the loop body, which appends to errors
AssignEntry(t) ==
    /\ CallAt(t, "assign")
    /\ IF group_attr.present
       THEN /\ group_attr' = [present |-> TRUE, owner |-> t]
            /\ batch_call' = [batch_call EXCEPT ![t].pc = "respond"]
       ELSE /\ batch_call' = [batch_call EXCEPT ![t].pc = "respond", ![t].errors = 1]
            /\ UNCHANGED group_attr

\* if hasattr(self, '_group_metadata') and self._group_metadata: a response without
\* group metadata is returned when it is false
RespondCheck(t) ==
    /\ CallAt(t, "respond")
    /\ batch_call' =
           IF group_attr.present /\ group_attr.owner # 0
           THEN [batch_call EXCEPT ![t].pc = "copy"]
           ELSE [batch_call EXCEPT ![t].pc = "done",
                    ![t].response = [type |-> "response", group_metadata |-> {}]]
    /\ UNCHANGED group_attr

\* response['group_metadata'] = self._group_metadata: an AttributeError goes to the
\* outer except, which returns the error dictionary
RespondCopy(t) ==
    /\ CallAt(t, "copy")
    /\ batch_call' =
           IF group_attr.present
           THEN [batch_call EXCEPT ![t].pc = "clear",
                    ![t].copied = {group_attr.owner} \ {0}]
           ELSE [batch_call EXCEPT ![t].pc = "done",
                    ![t].response = [type |-> "error", group_metadata |-> {}]]
    /\ UNCHANGED group_attr

\* delattr(self, '_group_metadata'), then return response
RespondClear(t) ==
    /\ CallAt(t, "clear")
    /\ IF group_attr.present
       THEN /\ group_attr' = Absent
            /\ batch_call' = [batch_call EXCEPT ![t].pc = "done",
                   ![t].response = [type |-> "response",
                                    group_metadata |-> batch_call[t].copied]]
       ELSE /\ batch_call' = [batch_call EXCEPT ![t].pc = "done",
                   ![t].response = [type |-> "error", group_metadata |-> {}]]
            /\ UNCHANGED group_attr

(***************************************************************************)
(* SpaceDebrisService: process_multiple_satellites with its worker         *)
(* futures, _fetch_and_process, _process_entire_debris_group, and the      *)
(* fetching half of the TLE parser.  A TLE string is the sequence of its   *)
(* lines; states name the texts by kind, TleString gives the lines.        *)
(***************************************************************************)
\* identifiers of one call
MaxBatch == 3

\* members of one debris group
MaxMembers == 11

\* answers the external source has ready for the requests of one fetch
MaxAnswers == 4

\* waits on a future that run out in one call
MaxTimeouts == 1

\* getattr(config, 'MAX_API_RETRIES', 3)
max_retries == 3

ValidTles == {"valid", "valid_b"}

MalformedTles == {"too_few_lines", "wrong_length", "bad_checksum"}

\* isinstance(satellite_id, int)
CatalogNumbers == {"25544"}

GroupNames == {"stations"}

\* isinstance(catalog_or_group, list): a list of two catalog numbers
CatalogLists == {"20580,43013"}

\* the lines of each text: two well-formed TLEs of different orbits, the malformed
\* ones (two lines only, a line of 68 characters, a checksum off by one, a line 2
\* whose last character is no digit); any other string is a single line
TleString(kind) ==
    LET name == <<"I", "S", "S">>
        mean_motion_b == <<"1", "4", ".", "0", "0", "0", "0", "0", "0", "0", "0">>
    IN  CASE kind = "valid" -> <<name, ISS_LINE1, ISS_LINE2>>
          [] kind = "valid_b" ->
                <<name, ISS_LINE1, Stamp(Splice(ISS_LINE2, 52, mean_motion_b))>>
          [] kind = "too_few_lines" -> <<ISS_LINE1, ISS_LINE2>>
          [] kind = "wrong_length" -> <<name, SubSeq(ISS_LINE1, 1, LineLen - 1), ISS_LINE2>>
          [] kind = "bad_checksum" ->
                <<name, ISS_LINE1,
                  [ISS_LINE2 EXCEPT ![LineLen] =
                      DigitChars[((TleChecksum(ISS_LINE2) + 1) % 10) + 1]]>>
          [] kind = "nondigit_end" -> <<name, ISS_LINE1, [ISS_LINE2 EXCEPT ![LineLen] = "X"]>>
          [] OTHER -> <<name>>

\* parse_tle_string: fewer than three lines give None, else lines 2 and 3 are parsed
parse_tle_string(lines) ==
    IF Len(lines) < 3 THEN NoneResult
    ELSE parse_tle_lines(strip(lines[2]), strip(lines[3]))

\* the outcome of parse_tle_string on each text: "record", "None" or "raised"
ParsedTle ==
    [kind \in ValidTles \cup MalformedTles \cup {"nondigit_end"} |->
        parse_tle_string(TleString(kind)).kind]

\* isinstance(sat, str) and len(sat.split('\n')) >= 3
is_tle_string(sat) ==
    sat \notin CatalogNumbers \cup CatalogLists /\ Len(TleString(sat)) >= 3

\* what predict_reentry_window makes of a well-formed text: None, or an assessment
\* with its overall_reentry_risk in thousandths
Assessments ==
    {[ok |-> FALSE, risk |-> 0], [ok |-> TRUE, risk |-> 400], [ok |-> TRUE, risk |-> 700]}

\* what one request to the source ends in: a status code, or a RequestException
Answers == {"200", "404", "500", "timeout"}

\* the entries the source holds for an identifier: the object of a catalog number,
\* the three objects of the group (all well-formed, or one with a line 2 that does
\* not parse), nothing under a name that is TLE text
SourceBodies(id) ==
    IF id \in CatalogNumbers THEN {<<"valid">>}
    ELSE IF id \in GroupNames
         THEN {<<"valid", "valid_b", "valid">>, <<"valid", "bad_checksum", "valid_b">>}
         ELSE {<<>>}

\* _fetch_with_retry from attempt on, answers[k] being what request k ends in
RECURSIVE fetch_without_limit(_, _)
fetch_without_limit(answers, attempt) ==
    IF attempt >= Len(answers) THEN [requests |-> attempt, response |-> "None"]
    ELSE IF answers[attempt + 1] = "200" THEN [requests |-> attempt + 1, response |-> "text"]
    ELSE IF answers[attempt + 1] = "404" THEN [requests |-> attempt + 1, response |-> "None"]
    ELSE fetch_without_limit(answers, attempt + 1)

\* _fetch_with_retry from attempt on, answers[k] being what request k ends in: 200
\* returns the text, 404 returns None, any other status or a RequestException (after
\* its backoff sleep) goes to the next attempt, range(max_retries) running out gives None
RECURSIVE fetch_with_retry(_, _)
fetch_with_retry(answers, attempt) ==
    IF attempt >= max_retries THEN [requests |-> attempt, response |-> "None"]
    ELSE IF answers[attempt + 1] = "200" THEN [requests |-> attempt + 1, response |-> "text"]
    ELSE IF answers[attempt + 1] = "404" THEN [requests |-> attempt + 1, response |-> "None"]
    ELSE fetch_with_retry(answers, attempt + 1)

\* what _fetch_with_retry can come to over every sequence of answers
RetryOutcomes == {fetch_with_retry(answers, 0) : answers \in [1..MaxAnswers -> Answers]}

\* _parse_tle_response: the entries whose parse gives a record, in order; a parse that
\* raises leaves the function
parse_tle_response(body) ==
    LET entries == [k \in 1..Len(body) |-> [position |-> k, kind |-> body[k]]]
        IsRecord(e) == ParsedTle[e.kind] = "record"
    IN  IF \E k \in 1..Len(body) : ParsedTle[body[k]] = "raised"
        THEN [raised |-> TRUE, tles |-> <<>>]
        ELSE [raised |-> FALSE, tles |-> SelectSeq(entries, IsRecord)]

\* fetch_tle_data: a fresh cache entry is returned as it is; else the fetch with its
\* retries, an empty list for no response or for an exception, the parsed entries
\* (stored in the cache) otherwise
fetch_tle_data(cached, fresh, retry, body) ==
    IF cached.present /\ fresh
    THEN [exhausted |-> FALSE, tles |-> cached.tles, store |-> FALSE, body |-> <<>>]
    ELSE IF retry.response = "None"
    THEN [exhausted |-> TRUE, tles |-> <<>>, store |-> FALSE, body |-> <<>>]
    ELSE IF parse_tle_response(body).raised
    THEN [exhausted |-> FALSE, tles |-> <<>>, store |-> FALSE, body |-> body]
    ELSE [exhausted |-> FALSE, tles |-> parse_tle_response(body).tles, store |-> TRUE,
          body |-> body]

\* fetch_tle_data on a list: _batch_fetch_tles fetches each catalog number by itself
\* and joins what the fetches returned; nothing is stored under the list's key
batch_fetch_tles(first, second) ==
    LET Got(retry, kind) == IF retry.response = "text" THEN <<kind>> ELSE <<>>
        body == Got(first, "valid") \o Got(second, "valid_b")
    IN  [exhausted |-> body = <<>>, tles |-> parse_tle_response(body).tles,
         store |-> FALSE, body |-> body]

\* a dictionary with an "error" entry
ErrorResult(msg) == [type |-> "error", error |-> msg]

\* process_single_satellite on a text; origin (identifier index, member index) tells
\* the results apart
process_single_satellite(kind, origin) ==
    IF ParsedTle[kind] = "raised" THEN ErrorResult("Processing failed")
    ELSE IF ParsedTle[kind] = "None" THEN ErrorResult("Invalid TLE data format")
    ELSE IF ~assessment[kind].ok THEN ErrorResult("Reentry analysis failed")
    ELSE [type |-> "single", error |-> "",
          overall_reentry_risk |-> assessment[kind].risk, origin |-> origin]

\* a sort by risk, highest first, that puts the later of two equal results first
RECURSIVE sorted_ties_reversed(_)
sorted_ties_reversed(rs) ==
    IF rs = <<>> THEN <<>>
    ELSE LET rest == sorted_ties_reversed(Tail(rs))
             k == Cardinality({j \in 1..Len(rest) :
                     rest[j].overall_reentry_risk >= Head(rs).overall_reentry_risk})
         IN  SubSeq(rest, 1, k) \o <<Head(rs)>> \o SubSeq(rest, k + 1, Len(rest))

\* sorted(results, key=overall_reentry_risk, reverse=True) and list.sort likewise:
\* highest risk first, equal risks in their order in the list
RECURSIVE sorted_by_risk(_)
sorted_by_risk(rs) ==
    IF rs = <<>> THEN <<>>
    ELSE LET rest == sorted_by_risk(Tail(rs))
             k == Cardinality({j \in 1..Len(rest) :
                     rest[j].overall_reentry_risk > Head(rs).overall_reentry_risk})
         IN  SubSeq(rest, 1, k) \o <<Head(rs)>> \o SubSeq(rest, k + 1, Len(rest))

\* all_results[:10]
TopSlice == 10

\* a report whose all_results is cut like highest_risk_debris
GroupReportTruncated(tle_data_list, all_results, processing_errors) ==
    [type |-> "group", error |-> "",
     group_analysis |-> [total_pieces |-> Len(tle_data_list),
                         successfully_processed |-> Len(all_results),
                         processing_errors |-> Len(processing_errors)],
     highest_risk_debris |-> SubSeq(all_results, 1, Min(TopSlice, Len(all_results))),
     all_results |-> SubSeq(all_results, 1, Min(TopSlice, Len(all_results))),
     processing_errors |-> processing_errors]

\* the dictionary _process_entire_debris_group returns
GroupReport(tle_data_list, all_results, processing_errors) ==
    [type |-> "group", error |-> "",
     group_analysis |-> [total_pieces |-> Len(tle_data_list),
                         successfully_processed |-> Len(all_results),
                         processing_errors |-> Len(processing_errors)],
     highest_risk_debris |-> SubSeq(all_results, 1, Min(TopSlice, Len(all_results))),
     all_results |-> all_results,
     processing_errors |-> processing_errors]

\* _process_entire_debris_group: every member goes through process_single_satellite,
\* to all_results or to processing_errors; all_results is then sorted by risk
process_entire_debris_group(tle_data_list, index) ==
    LET outcome == [k \in 1..Len(tle_data_list) |->
                       process_single_satellite(tle_data_list[k].kind, <<index, k>>)]
        Succeeded(r) == r.type = "single"
        Failed(e) == e.error # ""
    IN  GroupReport(tle_data_list,
                    sorted_by_risk(SelectSeq(outcome, Succeeded)),
                    SelectSeq([k \in 1..Len(tle_data_list) |->
                                  [index |-> k - 1, error |-> outcome[k].error]], Failed))

\* _fetch_and_process after its fetch: nothing fetched is an error, a catalog number
\* takes the first entry, a name takes the whole group; for a list neither isinstance
\* test holds and the function ends without a return statement
fetch_and_process(satellite_id, index, tle_data_list) ==
    IF tle_data_list = <<>> THEN ErrorResult("Could not fetch TLE data")
    ELSE IF satellite_id \in CatalogNumbers
    THEN process_single_satellite(tle_data_list[1].kind, <<index, 0>>)
    ELSE IF satellite_id \in CatalogLists
    THEN [type |-> "None", error |-> ""]
    ELSE process_entire_debris_group(tle_data_list, index)

NoAssessment == [kind \in ValidTles |-> [ok |-> FALSE, risk |-> 0]]

EmptyCache ==
    [id \in (ValidTles \cup MalformedTles \cup CatalogNumbers \cup GroupNames
                 \cup CatalogLists) |->
        [present |-> FALSE, tles |-> <<>>]]

\* nothing generated, scored, constructed, aggregated, called or fetched yet
AppIdle ==
    /\ sample = Pending /\ scored = Pending
    /\ service = NoService /\ analyses = <<>>
    /\ risk_thresholds = DefaultThresholds /\ analysed = <<>> /\ aggregated = Pending
    /\ group_attr = Absent /\ batch_call = <<>>
    /\ response_text = <<>> /\ fetch_result = Pending

BatchIdle ==
    /\ identifiers = <<>> /\ assessment = NoAssessment /\ futures = <<>>
    /\ out_of_order = FALSE /\ collected = 0 /\ results = <<>> /\ errors = <<>>
    /\ timed_out = {} /\ group_metadata = {} /\ tle_cache = EmptyCache
    /\ response = Pending /\ members = <<>> /\ group_result = Pending

ServiceIdle == AnalyzerIdle /\ BatchIdle /\ AppIdle

\* process_multiple_satellites is called: every identifier is submitted to the pool
\* (the second well-formed text is assessed at 0.7; the first at less, the same, or
\* not at all)
InitBatch ==
    /\ identifiers \in UNION {[1..n -> (ValidTles \cup MalformedTles \cup CatalogNumbers
                                          \cup GroupNames)] : n \in 0..MaxBatch}
    /\ assessment \in {a \in [ValidTles -> Assessments] : a["valid_b"].risk = 700}
    /\ futures = [i \in 1..Len(identifiers) |-> Pending]
    /\ out_of_order = FALSE /\ collected = 0 /\ results = <<>> /\ errors = <<>>
    /\ timed_out = {} /\ group_metadata = {} /\ tle_cache = EmptyCache
    /\ response = Pending /\ members = <<>> /\ group_result = Pending
    /\ AnalyzerIdle /\ AppIdle /\ CodecIdle /\ ChecksumIdle /\ PredictorInit

\* the catalog route hands over a list of catalog numbers as one identifier, alone
\* or next to a catalog number or a TLE string
InitCatalog ==
    /\ identifiers \in UNION {[1..n -> (CatalogLists \cup CatalogNumbers \cup {"valid"})] :
                                  n \in 1..2}
    /\ \E i \in 1..Len(identifiers) : identifiers[i] \in CatalogLists
    /\ assessment \in {a \in [ValidTles -> Assessments] : a["valid_b"].risk = 700}
    /\ futures = [i \in 1..Len(identifiers) |-> Pending]
    /\ out_of_order = FALSE /\ collected = 0 /\ results = <<>> /\ errors = <<>>
    /\ timed_out = {} /\ group_metadata = {} /\ tle_cache = EmptyCache
    /\ response = Pending /\ members = <<>> /\ group_result = Pending
    /\ AnalyzerIdle /\ AppIdle /\ CodecIdle /\ ChecksumIdle /\ PredictorInit

\* what fetch_tle_data can come to for an identifier: the cache entry fresh or not,
\* every outcome of the retries, every body the source may hold
FetchOutcomes(id) ==
    IF id \in CatalogLists
    THEN {batch_fetch_tles(first, second) : first, second \in RetryOutcomes}
    ELSE {fetch_tle_data(tle_cache[id], fresh, retry, body) :
             fresh \in BOOLEAN, retry \in RetryOutcomes, body \in SourceBodies(id)}

\* the worker of identifier i finishes: process_single_satellite when every identifier
\* is a TLE string of three lines or more, _fetch_and_process otherwise
WorkerFinish(i, fetched) ==
    /\ futures[i] = Pending
    /\ IF \A j \in 1..Len(identifiers) : is_tle_string(identifiers[j])
       THEN /\ futures' = [futures EXCEPT ![i] =
                   [kind |-> "done", via |-> "parse", exhausted |-> FALSE, body |-> <<>>,
                    result |-> process_single_satellite(identifiers[i], <<i, 0>>)]]
            /\ UNCHANGED tle_cache
       ELSE /\ futures' = [futures EXCEPT ![i] =
                   [kind |-> "done", via |-> "fetch", exhausted |-> fetched.exhausted,
                    body |-> fetched.body,
                    result |-> fetch_and_process(identifiers[i], i, fetched.tles)]]
            /\ tle_cache' =
                   IF fetched.store
                   THEN [tle_cache EXCEPT ![identifiers[i]] =
                            [present |-> TRUE, tles |-> fetched.tles]]
                   ELSE tle_cache
    /\ out_of_order' = (out_of_order \/ \E j \in 1..(i - 1) : futures[j] = Pending)
    /\ UNCHANGED <<identifiers, assessment, collected, results, errors, timed_out,
                   group_metadata, response, members, group_result>>

\* a timeout that ends the loop over the futures
CollectTimeoutAborts ==
    /\ collected < Len(identifiers)
    /\ futures[collected + 1] = Pending
    /\ Cardinality(timed_out) < MaxTimeouts
    /\ errors' = Append(errors, [satellite_index |-> collected, error |-> ""])
    /\ timed_out' = timed_out \cup {collected + 1}
    /\ collected' = Len(identifiers)
    /\ UNCHANGED <<identifiers, assessment, futures, out_of_order, results, group_metadata,
                   tle_cache, response, members, group_result>>

\* future.result(timeout=120) raises for a future still running: the exception (its
\* text is empty) goes to errors and the loop moves on
CollectTimeout ==
    /\ collected < Len(identifiers)
    /\ futures[collected + 1] = Pending
    /\ Cardinality(timed_out) < MaxTimeouts
    /\ errors' = Append(errors, [satellite_index |-> collected, error |-> ""])
    /\ timed_out' = timed_out \cup {collected + 1}
    /\ collected' = collected + 1
    /\ UNCHANGED <<identifiers, assessment, futures, out_of_order, results, group_metadata,
                   tle_cache, response, members, group_result>>

\* a loop body that drops a result holding "error"
CollectResultSilent ==
    /\ collected < Len(identifiers)
    /\ futures[collected + 1] # Pending
    /\ LET result == futures[collected + 1].result
       IN  IF result.type = "None"
           THEN /\ errors' = Append(errors, [satellite_index |-> collected,
                                             error |-> "TypeError"])
                /\ UNCHANGED <<results, group_metadata>>
           ELSE IF result.type = "error"
           THEN UNCHANGED <<results, errors, group_metadata>>
           ELSE IF result.type = "group"
           THEN /\ results' = results \o result.all_results
                /\ group_metadata' = group_metadata \cup {collected}
                /\ UNCHANGED errors
           ELSE /\ results' = Append(results, result)
                /\ UNCHANGED <<errors, group_metadata>>
    /\ collected' = collected + 1
    /\ UNCHANGED <<identifiers, assessment, futures, out_of_order, timed_out, tle_cache,
                   response, members, group_result>>

\* the loop body for a completed future: an "error" goes to errors with its index, a
\* group's all_results extend results and its metadata is kept, any other result is
\* appended; `"error" in result` raises TypeError for a result of None, which the
\* except of the loop body puts into errors
CollectResult ==
    /\ collected < Len(identifiers)
    /\ futures[collected + 1] # Pending
    /\ LET result == futures[collected + 1].result
       IN  IF result.type = "None"
           THEN /\ errors' = Append(errors, [satellite_index |-> collected,
                                             error |-> "TypeError"])
                /\ UNCHANGED <<results, group_metadata>>
           ELSE IF result.type = "error"
           THEN /\ errors' = Append(errors, [satellite_index |-> collected,
                                             error |-> result.error])
                /\ UNCHANGED <<results, group_metadata>>
           ELSE IF result.type = "group"
           THEN /\ results' = results \o result.all_results
                /\ group_metadata' = group_metadata \cup {collected}
                /\ UNCHANGED errors
           ELSE /\ results' = Append(results, result)
                /\ UNCHANGED <<errors, group_metadata>>
    /\ collected' = collected + 1
    /\ UNCHANGED <<identifiers, assessment, futures, out_of_order, timed_out, tle_cache,
                   response, members, group_result>>

\* the pool is left once every worker has finished; the call aggregates, sorts and
\* returns, and clears the group metadata
Respond ==
    /\ response = Pending
    /\ collected = Len(identifiers)
    /\ \A i \in 1..Len(identifiers) : futures[i] # Pending
    /\ response' =
           [type |-> "response",
            summary |-> aggregate_results(results, risk_thresholds),
            individual_results |-> sorted_by_risk(results),
            processing_errors |-> errors,
            metadata |-> [total_satellites |-> Len(identifiers),
                          successful_analyses |-> Len(results),
                          failed_analyses |-> Len(errors)],
            group_metadata |-> group_metadata]
    /\ group_metadata' = {}
    /\ UNCHANGED <<identifiers, assessment, futures, out_of_order, collected, results,
                   errors, timed_out, tle_cache, members, group_result>>

\* _process_entire_debris_group is handed a list of member records
InitGroup ==
    /\ members \in UNION {{[k \in 1..n |-> [position |-> k, kind |-> kinds[k]]] :
                              kinds \in [1..n -> ValidTles]} : n \in 0..MaxMembers}
    /\ assessment \in [ValidTles -> Assessments]
    /\ group_result = Pending
    /\ identifiers = <<>> /\ futures = <<>>
    /\ out_of_order = FALSE /\ collected = 0 /\ results = <<>> /\ errors = <<>>
    /\ timed_out = {} /\ group_metadata = {} /\ tle_cache = EmptyCache
    /\ response = Pending
    /\ AnalyzerIdle /\ AppIdle /\ CodecIdle /\ ChecksumIdle /\ PredictorInit

ProcessGroup ==
    /\ group_result = Pending
    /\ group_result' = process_entire_debris_group(members, 0)
    /\ UNCHANGED <<identifiers, assessment, futures, out_of_order, collected, results,
                   errors, timed_out, group_metadata, tle_cache, response, members>>

(***************************************************************************)
(* One fetch_tle_data call whose request is answered with a text           *)
(***************************************************************************)
\* entries of three lines each in one response text
MaxEntries == 3

\* what an entry of the text may be: well-formed, or failing validation by its length,
\* by its checksum, or by a last character that is no digit
EntryKinds == ValidTles \cup {"wrong_length", "bad_checksum", "nondigit_end"}

InitFetch ==
    /\ response_text \in UNION {[1..n -> EntryKinds] : n \in 0..MaxEntries}
    /\ fetch_result = Pending

\* fetch_tle_data for a key that is not cached, the first request answered with 200
FetchTleData ==
    /\ fetch_result = Pending
    /\ fetch_result' =
           [kind |-> "list",
            tles |-> fetch_tle_data([present |-> FALSE, tles |-> <<>>], FALSE,
                                    fetch_with_retry(<<"200">>, 0), response_text).tles]
    /\ UNCHANGED response_text

(***************************************************************************)
(* Specifications                                                          *)
(***************************************************************************)
vars == <<codecVars, checksumVars, predictorVars, serviceVars>>

Init == CodecInit /\ ChecksumIdle /\ PredictorInit /\ ServiceIdle

Next == ParseTleLines /\ UNCHANGED <<checksumVars, predictorVars, serviceVars>>

Spec == Init /\ [][Next]_vars

InitChecksum == ChecksumInit /\ CodecIdle /\ PredictorInit /\ ServiceIdle

NextChecksum ==
    \/ VerifyChecksum /\ UNCHANGED <<codecVars, predictorVars, serviceVars>>
    \/ \E p \in 1..(Len(cline) - 1), d \in Digits :
          ReplaceDigit(p, d) /\ UNCHANGED <<codecVars, predictorVars, serviceVars>>

SpecChecksum == InitChecksum /\ [][NextChecksum]_vars

InitPredictor == PredictorInit /\ CodecIdle /\ ChecksumIdle /\ ServiceIdle

\* one statement of thread t
ThreadStep(t) ==
    \/ \E n \in TrainArgs : CallTrain(t, n)
    \/ CallPredict(t)
    \/ TrainCheck(t)
    \/ FitBegin(t)
    \/ FitEnd(t)
    \/ TrainFinish(t)
    \/ TrainReturn(t)
    \/ PredictCheck(t)
    \/ \E rf_pred, gb_pred, nn_pred \in RegressorOutputs :
          PredictRead(t, rf_pred, gb_pred, nn_pred)
    \/ PredictReturn(t)

\* calls made one after the other by a single caller
NextPredictor == ThreadStep(MainThread)

SpecPredictor == InitPredictor /\ [][NextPredictor]_vars

\* calls made by the worker threads of one batch, interleaved statement by statement
NextConcurrent == \E t \in Threads : ThreadStep(t) \/ PredictReadRaises(t)

SpecConcurrent == InitPredictor /\ [][NextConcurrent]_vars

InitAnalyzer ==
    AnalyzerInit /\ BatchIdle /\ AppIdle /\ CodecIdle /\ ChecksumIdle /\ PredictorInit

NextAnalyzer ==
    \E rf_pred, gb_pred, nn_pred \in AnalyzerRegressorOutputs(orbit) :
        PredictReentryWindow(rf_pred, gb_pred, nn_pred)
            /\ UNCHANGED <<codecVars, checksumVars, predictorVars, batchVars, appVars>>

SpecAnalyzer == InitAnalyzer /\ [][NextAnalyzer]_vars

NextBatch ==
    \/ \E i \in 1..Len(identifiers) :
          \E fetched \in FetchOutcomes(identifiers[i]) :
              WorkerFinish(i, fetched)
                  /\ UNCHANGED <<codecVars, checksumVars, predictorVars, analyzerVars, appVars>>
    \/ CollectResult /\ UNCHANGED <<codecVars, checksumVars, predictorVars, analyzerVars, appVars>>
    \/ CollectTimeout /\ UNCHANGED <<codecVars, checksumVars, predictorVars, analyzerVars, appVars>>
    \/ Respond /\ UNCHANGED <<codecVars, checksumVars, predictorVars, analyzerVars, appVars>>

SpecBatch == InitBatch /\ [][NextBatch]_vars

SpecCatalog == InitCatalog /\ [][NextBatch]_vars

NextGroup ==
    ProcessGroup /\ UNCHANGED <<codecVars, checksumVars, predictorVars, analyzerVars, appVars>>

SpecGroup == InitGroup /\ [][NextGroup]_vars

\* every variable but those of the one component a specification below runs
Others(own) == UNCHANGED <<codecVars, checksumVars, predictorVars, analyzerVars, batchVars, own>>

InitApp == AppIdle /\ AnalyzerIdle /\ BatchIdle /\ CodecIdle /\ ChecksumIdle /\ PredictorInit

NextGenerator ==
    \E f \in [altitude : GeneratorAltitudes, inclination : Inclinations,
              eccentricity : Eccentricities, mass : Masses, area : Areas,
              solar_flux : SolarFluxes] :
        GenerateSample(f)
            /\ Others(<<scoringVars, lifetimeVars, aggregateVars, callVars, fetchVars>>)

SpecGenerator == InitApp /\ [][NextGenerator]_vars

NextScore ==
    \E d \in ScoreDays, altitude \in ScoreAltitudes, e \in ScoreEccentricities :
        CalculateReentryRisk(d, altitude, e)
            /\ Others(<<generatorVars, lifetimeVars, aggregateVars, callVars, fetchVars>>)

SpecScore == InitApp /\ [][NextScore]_vars

\* the orbits, regressor outputs and forecast periods of the calls of one lifetime
NextService ==
    \/ ServiceInit
           /\ Others(<<generatorVars, scoringVars, aggregateVars, callVars, fetchVars>>)
    \/ \E o \in [altitude : {50, 250, 1200}, inclination : {-30, 90}, eccentricity : {1}],
          r \in RegressorOutputs, forecast_days \in {1, 30, 365} :
          ProcessSingleSatellite(o, <<r, r, r>>, forecast_days)
              /\ Others(<<generatorVars, scoringVars, aggregateVars, callVars, fetchVars>>)

SpecService == InitApp /\ [][NextService]_vars

InitConfigured ==
    /\ InitAggregate
    /\ sample = Pending /\ scored = Pending /\ service = NoService /\ analyses = <<>>
    /\ group_attr = Absent /\ batch_call = <<>>
    /\ response_text = <<>> /\ fetch_result = Pending
    /\ AnalyzerIdle /\ BatchIdle /\ CodecIdle /\ ChecksumIdle /\ PredictorInit

NextAggregate ==
    \/ \E score \in Scores :
          AnalysedOne(score)
              /\ Others(<<generatorVars, scoringVars, lifetimeVars, callVars, fetchVars>>)
    \/ AggregateResults
           /\ Others(<<generatorVars, scoringVars, lifetimeVars, callVars, fetchVars>>)

SpecAggregate == InitConfigured /\ [][NextAggregate]_vars

InitTwoCalls ==
    /\ InitCalls
    /\ sample = Pending /\ scored = Pending /\ service = NoService /\ analyses = <<>>
    /\ risk_thresholds = DefaultThresholds /\ analysed = <<>> /\ aggregated = Pending
    /\ response_text = <<>> /\ fetch_result = Pending
    /\ AnalyzerIdle /\ BatchIdle /\ CodecIdle /\ ChecksumIdle /\ PredictorInit

\* one statement of the call of thread t
CallStep(t) ==
    \/ CollectFuture(t)
    \/ CreateAttr(t)
    \/ AssignEntry(t)
    \/ RespondCheck(t)
    \/ RespondCopy(t)
    \/ RespondClear(t)

NextCalls ==
    \E t \in Threads :
        CallStep(t)
            /\ Others(<<generatorVars, scoringVars, lifetimeVars, aggregateVars, fetchVars>>)

SpecCalls == InitTwoCalls /\ [][NextCalls]_vars

InitAnswered ==
    /\ InitFetch
    /\ sample = Pending /\ scored = Pending /\ service = NoService /\ analyses = <<>>
    /\ risk_thresholds = DefaultThresholds /\ analysed = <<>> /\ aggregated = Pending
    /\ group_attr = Absent /\ batch_call = <<>>
    /\ AnalyzerIdle /\ BatchIdle /\ CodecIdle /\ ChecksumIdle /\ PredictorInit

NextFetch ==
    FetchTleData
        /\ Others(<<generatorVars, scoringVars, lifetimeVars, aggregateVars, callVars>>)

SpecFetch == InitAnswered /\ [][NextFetch]_vars

(***************************************************************************)
(* Properties of the TLE codec                                             *)
(***************************************************************************)
LastChar(l) == l[Len(l)]

\* the last character of a line is the digit of the line's checksum
ChecksumDigitMatches(l) ==
    l # <<>> /\ isdigit(LastChar(l)) /\ DigitVal(LastChar(l)) = TleChecksum(l)

\* C1: parse_tle_lines never raises: every malformed input yields None instead of an
\* exception leaving the call.
C1_ParseNeverRaises == parsed.kind # "raised"

\* C2: parse_tle_lines returns a record only if both lines have exactly 69
\* characters, line1 begins with '1', line2 begins with '2', and the last character of
\* each line is that line's mod-10 checksum.
C2_RecordOnlyFromValidLines ==
    parsed.kind = "record" =>
        /\ Len(line1) = 69 /\ Len(line2) = 69
        /\ line1[1] = "1" /\ line2[1] = "2"
        /\ ChecksumDigitMatches(line1)
        /\ ChecksumDigitMatches(line2)

\* a record was returned for a pair of lines
C2_RecordReturned == parsed.kind = "record" /\ parsed.raw_lines.line2 = line2

\* C3: _verify_checksum(line) is true exactly when the last character, read as a
\* digit, equals (sum of the digits + number of '-') mod 10 over every character but
\* the last; and once one digit outside the last position of a verifying line is
\* replaced by a different digit, verification is false.
C3_ChecksumDecides ==
    verified # "pending" =>
        /\ verified = "true" <=> ChecksumDigitMatches(cline)
        /\ replaced => verified = "false"

\* a verifying line had one digit replaced and was verified again
C3_ReplacedDigitRejected == replaced /\ verified = "false"

\* sMMMMMsE read as sign * 0.MMMMM * 10^(sign*E), for the field at columns 53-60
\* (a sign or a space, five digits, a sign, one digit)
ClaimedDecode(f) ==
    LET sign == IF f[1] = "-" THEN -1 ELSE 1
        expo == IF f[7] = "-" THEN 0 - DigitVal(f[8]) ELSE DigitVal(f[8])
    IN  Dec(sign * DigitsValue(SubSeq(f, 2, 6)), expo - 5)

\* C4: _parse_scientific_notation decodes sMMMMMsE as sign * 0.MMMMM * 10^(sign*E):
\* the drag term of every record is that value of its field.
C4_DecodesImpliedDecimalPoint ==
    parsed.kind = "record" => parsed.drag_term = ClaimedDecode(Cols(line1, 53, 60))

\* C5 as stated: in every record, average_altitude_km equals
\* (apogee_altitude_km + perigee_altitude_km) / 2 over the reported values.
C5_AverageIsMeanOfReported ==
    parsed.kind = "record" =>
        2 * parsed.computed_parameters.average_altitude_km
            = parsed.computed_parameters.apogee_altitude_km
              + parsed.computed_parameters.perigee_altitude_km

\* C5 as amended: in every record, average_altitude_km differs from
\* (apogee_altitude_km + perigee_altitude_km) / 2 by at most 0.01 km, the unit of the
\* two-decimal rounding (twice the difference is at most 2 hundredths).
C5_AverageWithinRounding ==
    parsed.kind = "record" =>
        LET twice == 2 * parsed.computed_parameters.average_altitude_km
                     - parsed.computed_parameters.apogee_altitude_km
                     - parsed.computed_parameters.perigee_altitude_km
        IN  twice >= -2 /\ twice <= 2

\* a record whose three reported altitudes do not average exactly
C5_RoundedApart ==
    /\ parsed.kind = "record"
    /\ 2 * parsed.computed_parameters.average_altitude_km
        # parsed.computed_parameters.apogee_altitude_km
          + parsed.computed_parameters.perigee_altitude_km

(***************************************************************************)
(* Properties of the decay ensemble                                        *)
(***************************************************************************)
Completed(kind) == {i \in 1..Len(log) : log[i].op = kind}

\* C6: predict_decay_rate returns a value >= 0.001 for every input and every output
\* of the three regressors, a negative weighted blend included.
C6_DecayFloored == \A i \in Completed("predict") : log[i].ret >= DecayFloor

\* a prediction whose blend was negative came back as the floor
C6_NegativeBlendFloored ==
    \E i \in Completed("predict") : log[i].blend < 0 /\ log[i].ret = DecayFloor

\* C7: once a train call has completed, every later train call (with any n_samples)
\* fits nothing, leaves the regressors, the scaler, is_trained and the stored metrics
\* unchanged, and returns the same metrics as the first call: from a trained state on
\* nothing of the model changes, no run starts, and every train call that returns
\* hands back the stored metrics.
C7_TrainingIdempotent ==
    [][is_trained =>
        /\ UNCHANGED <<is_trained, scaler, fitted, model_metrics, fitting, train_runs>>
        /\ (Len(log') > Len(log) /\ log'[Len(log')].op = "train")
              => log'[Len(log')].ret = model_metrics]_vars

\* two train calls with different n_samples have completed on one predictor
C7_TrainedTwice ==
    \E i, j \in Completed("train") : i < j /\ log[i].arg # log[j].arg

\* C8: a predict_decay_rate call on an untrained predictor runs one training before
\* predicting, and in a sequential series of predict and train calls at most one
\* training run happens.
C8_LazyTrainOnce ==
    /\ train_runs <= 1
    /\ Completed("predict") # {} => is_trained /\ train_runs = 1

\* the first call was a predict on the untrained predictor, and a second predict
\* followed without another run
C8_PredictTwiceOneRun ==
    /\ Len(log) >= 2
    /\ log[1].op = "predict" /\ log[2].op = "predict"
    /\ train_runs = 1

\* C9: when several threads make their first call on the same untrained predictor
\* concurrently, only one training run executes.
C9_SingleFlight == train_runs <= 1

\* C10: once any call has observed is_trained as true no training run writes the
\* regressors or the scaler, and no prediction reads them while a fit is in progress.
C10_ReadOnlyOnceTrained ==
    /\ observed_trained => fitting = {}
    /\ ~read_during_fit

(***************************************************************************)
(* Properties of the reentry analyzer                                      *)
(***************************************************************************)
\* C11: for all inputs, a negative inclination included, both reported risks lie in
\* [0, 1]: 0 <= overall_reentry_risk <= 1 and 0 <= peak_spatial_risk <= 1.
C11_RisksWithinUnitInterval ==
    reentry.kind = "result" =>
        /\ 0 <= reentry.overall_reentry_risk /\ reentry.overall_reentry_risk <= 1000
        /\ 0 <= reentry.peak_spatial_risk /\ reentry.peak_spatial_risk <= 1000

\* the regressors return the target the generator gives the orbit
TrainedOnTargets ==
    \A m \in 1..3 : reentry.regressors[m] =
        GeneratedTarget(orbit.altitude, orbit.inclination, orbit.eccentricity)

\* C20: an object at 250 km with eccentricity 0.01, analysed by a predictor that
\* reproduces the generator's targets, has days_to_reentry < 60 and
\* overall_reentry_risk >= 0.5.
C20_LowAltitudeIsImminent ==
    (/\ reentry.kind = "result"
     /\ orbit.altitude = 250 /\ orbit.eccentricity = 1
     /\ TrainedOnTargets)
        => /\ reentry.days_to_reentry < 60
           /\ reentry.overall_reentry_risk >= 500

(***************************************************************************)
(* Properties of the batch service                                         *)
(***************************************************************************)
BatchReturned == response # Pending

\* positions of individual_results that stem from identifier i
SuccessesOf(i) ==
    {k \in 1..Len(response.individual_results) :
        response.individual_results[k].origin[1] = i}

\* positions of processing_errors that carry the index of identifier i
ErrorsOf(i) ==
    {k \in 1..Len(response.processing_errors) :
        response.processing_errors[k].satellite_index = i - 1}

\* every well-formed text among the identifiers or in a fetched body can be analysed
AnalysisSucceeds == \A kind \in ValidTles : assessment[kind].ok

\* C12: a call with N valid TLE strings and one malformed TLE string (too few lines,
\* wrong line length or bad checksum, at any position) returns N successful results
\* and exactly one processing_errors entry.
C12_MalformedIsolated ==
    (/\ BatchReturned /\ timed_out = {} /\ AnalysisSucceeds
     /\ \A i \in 1..Len(identifiers) : identifiers[i] \in ValidTles \cup MalformedTles
     /\ Cardinality({i \in 1..Len(identifiers) : identifiers[i] \in MalformedTles}) = 1)
        => /\ Len(response.individual_results) = Len(identifiers) - 1
           /\ Len(response.processing_errors) = 1

\* C13: each identifier is resolved by its own kind, in a list of mixed kinds too: a
\* TLE string of three lines or more is parsed directly and never handed to the
\* fetcher, a catalog number or a name is fetched.
C13_ResolvedByOwnKind ==
    \A i \in 1..Len(identifiers) :
        futures[i] # Pending =>
            (futures[i].via = "fetch" <=> ~is_tle_string(identifiers[i]))

C15_EveryMemberAccounted ==
    group_result # Pending =>
        LET g == group_result
            InResults(k) == {a \in 1..Len(g.all_results) : g.all_results[a].origin[2] = k}
            InErrors(k) == {e \in 1..Len(g.processing_errors) :
                               g.processing_errors[e].index = k - 1}
        IN  /\ g.group_analysis.total_pieces = Len(members)
            /\ g.group_analysis.successfully_processed + g.group_analysis.processing_errors
                  = g.group_analysis.total_pieces
            /\ g.group_analysis.successfully_processed = Len(g.all_results)
            /\ g.group_analysis.processing_errors = Len(g.processing_errors)
            /\ \A k \in 1..Len(members) :
                  /\ Cardinality(InResults(k)) + Cardinality(InErrors(k)) = 1
                  /\ assessment[members[k].kind].ok => InResults(k) # {}
            /\ Len(g.highest_risk_debris) = Min(TopSlice, Len(g.all_results))
            /\ \A a \in 1..Len(g.highest_risk_debris) :
                  g.highest_risk_debris[a] = g.all_results[a]
            /\ \A a, b \in 1..Len(g.all_results) :
                  a < b => g.all_results[a].overall_reentry_risk
                              >= g.all_results[b].overall_reentry_risk

\* a group with more successful members than the slice holds, of differing risks
C15_MoreThanTheSlice ==
    /\ group_result # Pending
    /\ Len(group_result.all_results) > Len(group_result.highest_risk_debris)
    /\ \E a, b \in 1..Len(group_result.all_results) :
          group_result.all_results[a].overall_reentry_risk
              # group_result.all_results[b].overall_reentry_risk

\* origin o was inserted before origin p: an earlier identifier, or an earlier member
\* of the same group
InsertedBefore(o, p) == o[1] < p[1] \/ (o[1] = p[1] /\ o[2] < p[2])

\* C16: individual_results is ordered by non-increasing overall_reentry_risk, and
\* results of equal risk keep their insertion order (the order of their identifiers in
\* the request), whatever order the workers finished in.
C16_SortedByRiskStable ==
    BatchReturned =>
        \A a, b \in 1..Len(response.individual_results) :
            a < b =>
                LET x == response.individual_results[a]
                    y == response.individual_results[b]
                IN  /\ x.overall_reentry_risk >= y.overall_reentry_risk
                    /\ x.overall_reentry_risk = y.overall_reentry_risk
                          => InsertedBefore(x.origin, y.origin)

\* workers finished out of order, two results tie, and the sort moved a result
C16_TieAfterReordering ==
    /\ BatchReturned /\ out_of_order
    /\ response.individual_results # results
    /\ \E a, b \in 1..Len(response.individual_results) :
          /\ a < b
          /\ response.individual_results[a].overall_reentry_risk
                = response.individual_results[b].overall_reentry_risk

\* C17: for identifiers none of which is a group name, the call returns a response
\* with individual_results and processing_errors in which every identifier is
\* accounted for exactly once: successful_analyses + failed_analyses =
\* total_satellites, and every processing_errors entry carries the index of an
\* identifier that failed.
C17_EveryIdentifierAccounted ==
    (BatchReturned /\ \A i \in 1..Len(identifiers) : identifiers[i] \notin GroupNames)
        => /\ response.type = "response"
           /\ response.metadata.successful_analyses + response.metadata.failed_analyses
                 = response.metadata.total_satellites
           /\ response.metadata.successful_analyses = Len(response.individual_results)
           /\ response.metadata.failed_analyses = Len(response.processing_errors)
           /\ \A i \in 1..Len(identifiers) :
                 Cardinality(SuccessesOf(i)) + Cardinality(ErrorsOf(i)) = 1
           /\ \A k \in 1..Len(response.processing_errors) :
                 LET i == response.processing_errors[k].satellite_index + 1
                 IN  /\ i \in 1..Len(identifiers)
                     /\ i \in timed_out \/ futures[i].result.type = "error"

\* a call without groups returned both successes and errors
C17_SuccessesAndErrors ==
    /\ BatchReturned
    /\ \A i \in 1..Len(identifiers) : identifiers[i] \notin GroupNames
    /\ response.individual_results # <<>>
    /\ response.processing_errors # <<>>
    /\ timed_out = {}

\* C18: for every sequence of answers of the source _fetch_with_retry makes at most
\* max_retries requests; when all attempts fail fetch_tle_data returns an empty list
\* (the identifier's result is the could-not-fetch error, no exception), and the
\* returned response lists that identifier in processing_errors.
C18_BoundedRetries ==
    /\ \A retry \in RetryOutcomes : retry.requests <= max_retries
    /\ \A i \in 1..Len(identifiers) :
          (futures[i] # Pending /\ futures[i].exhausted)
              => /\ futures[i].result = ErrorResult("Could not fetch TLE data")
                 /\ BatchReturned => response.type = "response" /\ ErrorsOf(i) # {}

\* a fetch ran out of attempts, its identifier is listed, a sibling succeeded
C18_ExhaustedFetchListed ==
    /\ BatchReturned
    /\ \E i \in 1..Len(identifiers) :
          futures[i].exhausted /\ i \notin timed_out /\ ErrorsOf(i) # {}
    /\ response.individual_results # <<>>

\* C19: when the wait for one object's future runs out, that object is listed in
\* processing_errors and not in individual_results, and the response still holds the
\* result of every sibling whose future was waited for to completion.
C19_TimeoutDiscardsOnlyItsOwn ==
    BatchReturned =>
        \A i \in 1..Len(identifiers) :
            IF i \in timed_out
            THEN ErrorsOf(i) # {} /\ SuccessesOf(i) = {}
            ELSE /\ futures[i].result.type = "single" =>
                       \E k \in SuccessesOf(i) :
                           response.individual_results[k] = futures[i].result
                 /\ futures[i].result.type = "group" =>
                       \A a \in 1..Len(futures[i].result.all_results) :
                           \E k \in SuccessesOf(i) :
                               response.individual_results[k]
                                   = futures[i].result.all_results[a]

\* a wait ran out on a future that later completed with a result, and a sibling's
\* result was returned
C19_TimedOutResultDiscarded ==
    /\ BatchReturned
    /\ \E i \in timed_out : futures[i].result.type # "error"
    /\ response.individual_results # <<>>

(***************************************************************************)
(* Properties of the codec: catalog numbers                                *)
(***************************************************************************)
\* C27: parse_tle_lines returns a record only if the catalog number in columns 3-7
\* of line 2 equals the catalog number of line 1; a checksum-valid pair of lines of
\* two different objects is rejected.
C27_CatalogNumbersAgree ==
    parsed.kind = "record" => IntValue(Cols(line2, 2, 6)) = parsed.catalog_number

(***************************************************************************)
(* Properties of the reentry timing                                        *)
(***************************************************************************)
\* C29: the decay rate the analyzer gets is never below 0.001 km/day, so every
\* assessment has a predicted_date, and its days_from_now is
\* max((altitude - 100) / decay_rate, 0) rounded to one decimal, never the 100-year
\* placeholder of the stable-orbit branch.
C29_ReentryAlwaysDated ==
    reentry.kind = "result" =>
        LET rate == reentry.predicted_decay_rate
            km_e5 == Max((orbit.altitude - ReentryAltitude) * E5PerKm, 0)
            off == 10 * km_e5 - reentry.days_from_now * rate
        IN  /\ rate >= DecayFloor
            /\ reentry.predicted_date # "None"
            /\ 2 * off <= rate /\ -rate <= 2 * off
            /\ reentry.days_to_reentry = km_e5 \div rate

\* an assessment at the floor rate: the blend of the regressors was negative
C29_DatedAtTheFloor ==
    /\ reentry.kind = "result"
    /\ Blend(reentry.regressors[1], reentry.regressors[2], reentry.regressors[3]) < 0
    /\ reentry.predicted_decay_rate = DecayFloor
    /\ reentry.predicted_date = "date"
    /\ reentry.days_from_now > 365 * 100 * 10

(***************************************************************************)
(* Properties of the training data                                         *)
(***************************************************************************)
\* C28: for every feature vector in the generator's ranges the physics decay rate
\* before flooring is below 0.001 km/day, so every sample is labelled with exactly
\* 0.001 and the target does not vary with any feature.
C28_EveryTargetIsTheFloor ==
    sample # Pending =>
        /\ sample.decay_rate < TargetFloor
        /\ sample.target = TargetFloor

\* the sample with the largest decay rate of the ranges: lowest orbit, lightest and
\* largest object, highest solar flux and eccentricity, polar orbit
C28_FastestDecayFloored ==
    /\ sample # Pending
    /\ sample.features = [altitude |-> 200, inclination |-> 90, eccentricity |-> 70,
                          mass |-> 100, area |-> 100, solar_flux |-> 250]
    /\ sample.decay_rate > 0
    /\ sample.target = TargetFloor

(***************************************************************************)
(* Properties of the reentry-risk score                                    *)
(***************************************************************************)
\* T(d) in tenths: 9 below 30 days, 6 below 365, 3 below 1825, 1 from there on
StatedTimeTier(d) ==
    IF d < 30 THEN 9 ELSE IF d < 365 THEN 6 ELSE IF d < 1825 THEN 3 ELSE 1

\* min(1, 0.5 * T(d) + 0.3 * clip((1000 - altitude) / 800, 0, 1) + 0.2 * min(1, 2 * e)),
\* in 1/8000, e in hundredths
StatedRisk(d, altitude, e) ==
    LET ramp == IF 1000 - altitude < 0 THEN 0
                ELSE IF 1000 - altitude > 800 THEN 800 ELSE 1000 - altitude
        twice_e == IF 2 * e > 100 THEN 100 ELSE 2 * e
        sum == 400 * StatedTimeTier(d) + 3 * ramp + 16 * twice_e
    IN  IF sum > 8000 THEN 8000 ELSE sum

\* C23: for every days_to_reentry d >= 0, altitude and eccentricity e >= 0,
\* _calculate_reentry_risk is min(1, 0.5*T(d) + 0.3*clip((1000 - altitude)/800, 0, 1)
\* + 0.2*min(1, 2*e)) with T the four-step function of d, and the score never rises
\* when d or the altitude grows.
C23_ReentryRiskAsStated ==
    scored # Pending =>
        /\ scored.risk = StatedRisk(scored.days_to_reentry, scored.altitude,
                                    scored.eccentricity)
        /\ \A d \in ScoreDays, altitude \in ScoreAltitudes :
               (d >= scored.days_to_reentry /\ altitude >= scored.altitude)
                   => calculate_reentry_risk(d, altitude, 0, scored.eccentricity)
                          <= scored.risk

\* a score at the first step of the time risk, on the ramps of the two other terms
C23_ScoredAtThirtyDays ==
    /\ scored # Pending
    /\ scored.days_to_reentry = 30 /\ scored.altitude = 600 /\ scored.eccentricity = 30
    /\ scored.risk = 2400 + 1200 + 960

(***************************************************************************)
(* Properties of the risk buckets                                          *)
(***************************************************************************)
\* the results of the batch whose risk_category is c
InCategory(c) == {i \in 1..Len(analysed) : analysed[i].risk_category = c}

\* C24: in every non-empty batch summary, the medium threshold not above the high
\* one, each analysed object is counted in exactly the bucket of risk_distribution
\* that its risk_category names, so low + medium + high == total_satellites.
C24_BucketsPartitionResults ==
    (/\ aggregated # Pending
     /\ analysed # <<>>
     /\ risk_thresholds.medium <= risk_thresholds.high)
        => LET summary == aggregated.summary
               buckets == summary.risk_distribution
           IN  /\ buckets.high = Cardinality(InCategory("HIGH"))
               /\ buckets.medium = Cardinality(InCategory("MEDIUM"))
               /\ buckets.low = Cardinality(InCategory("LOW"))
               /\ buckets.low + buckets.medium + buckets.high = summary.total_satellites
               /\ summary.total_satellites = Len(analysed)

\* a summary of three results, one in each bucket, two of them at a threshold
C24_OneInEachBucket ==
    /\ aggregated # Pending
    /\ risk_thresholds = DefaultThresholds
    /\ \E i, j \in 1..Len(analysed) :
           /\ analysed[i].overall_reentry_risk = risk_thresholds.medium
           /\ analysed[j].overall_reentry_risk = risk_thresholds.high
    /\ aggregated.summary.risk_distribution = [high |-> 1, medium |-> 1, low |-> 1]

(***************************************************************************)
(* Properties of the service over its lifetime                             *)
(***************************************************************************)
\* C21: once the constructor has completed its startup training, the predictor the
\* analyzer consults is trained, so no analysis call starts a training run and at
\* most one training run happens over the lifetime of the service.
C21_OneEnsembleTrainedOnce ==
    service.constructed =>
        /\ service.is_trained["self.analyzer.predictor"]
        /\ \A k \in 1..Len(analyses) : ~analyses[k].started_training
        /\ service.train_runs["self.predictor"]
               + service.train_runs["self.analyzer.predictor"] <= 1

\* C30: two analyses of the same orbit by the same trained predictor (the same
\* regressor outputs) that differ only in forecast_days return the same reentry
\* window, risk assessment, orbital parameters and risk category; forecast_days is
\* echoed in the metadata only.
C30_ForecastDaysNotRead ==
    \A j, k \in 1..Len(analyses) :
        /\ analyses[k].metadata.forecast_days = analyses[k].forecast_days
        /\ (/\ analyses[j].orbit = analyses[k].orbit
            /\ analyses[j].reentry.regressors = analyses[k].reentry.regressors)
               => /\ analyses[j].reentry = analyses[k].reentry
                  /\ analyses[j].risk_category = analyses[k].risk_category

\* the same orbit analysed for one day and for a year, the reentry lying beyond both
C30_SameOrbitTwoForecasts ==
    /\ Len(analyses) = 2
    /\ analyses[1].orbit = analyses[2].orbit
    /\ analyses[1].reentry.regressors = analyses[2].reentry.regressors
    /\ analyses[1].forecast_days = 1 /\ analyses[2].forecast_days = 365
    /\ analyses[1].reentry.days_to_reentry > 365
    /\ analyses[1].reentry = analyses[2].reentry

(***************************************************************************)
(* Properties of concurrent batch calls                                    *)
(***************************************************************************)
\* C22: in every interleaving of two process_multiple_satellites calls on one
\* service, each response's group_metadata holds exactly the groups of its own
\* request (none for a request without groups), and neither call fails or loses its
\* group metadata because of the other.
C22_CallsIsolated ==
    \A t \in Threads :
        CallAt(t, "done") =>
            /\ batch_call[t].response.type = "response"
            /\ batch_call[t].errors = 0
            /\ batch_call[t].response.group_metadata =
                   IF batch_call[t].request = "group" THEN {t} ELSE {}

(***************************************************************************)
(* Properties of the identifier kinds                                      *)
(***************************************************************************)
\* C25: an identifier that is a list of catalog numbers is resolved like the other
\* kinds: when the fetcher returns TLEs for its members the batch analyses them and
\* reports them in individual_results, and _fetch_and_process returns a result or
\* error dictionary for every identifier kind, never nothing.
C25_CatalogListResolved ==
    \A i \in 1..Len(identifiers) :
        /\ futures[i] # Pending => futures[i].result.type # "None"
        /\ (/\ BatchReturned /\ i \notin timed_out /\ AnalysisSucceeds
            /\ identifiers[i] \in CatalogLists
            /\ futures[i].body # <<>>)
               => Cardinality(SuccessesOf(i)) = Len(futures[i].body)

(***************************************************************************)
(* Properties of a fetched group                                           *)
(***************************************************************************)
\* C26: for every response text fetch_tle_data returns the record of every
\* well-formed three-line entry in it, whatever the other entries contain; an entry
\* that fails validation, a line of 69 characters whose last character is no digit
\* included, is skipped and does not empty the list.
C26_WellFormedEntriesReturned ==
    fetch_result # Pending =>
        \A k \in 1..Len(response_text) :
            response_text[k] \in ValidTles
                => \E e \in 1..Len(fetch_result.tles) : fetch_result.tles[e].position = k

====
